---- MODULE Spec2Model ----
(***************************************************************************)
(* A model of the execution-debugging subsystem of hive:                   *)
(*   core/framework/debug/debugger.py  (AgentDebugger)                     *)
(*   core/framework/debug/tracer.py    (ToolCallTracer)                    *)
(* Three specifications share the module:                                  *)
(*   Spec         the breakpoint registry and _should_break                *)
(*   SessionSpec  the pause protocol and run_with_debugging                *)
(*   TracerSpec   the tool-call tracer                                     *)
(***************************************************************************)
EXTENDS Integers, Sequences, FiniteSets, TLC

\* ------------------------------------------------------------------ bounds

\* _should_break is not called on a breakpoint whose hit counter reached this.
MaxHits == 2

\* The operator gives at most this many inspect commands during one pause.
MaxInspects == 2

\* start_tool_call is not called once this many ToolCalls were created.
MaxCalls == 3

\* start_trace is not called while the trace list holds this many traces.
MaxTraces == 1
MaxStarts == 3
MaxEnded == 1
MaxTime == 2
MaxListLen == 2
MaxEdges == 3
MaxDepth == 3
MaxSnapshots == 2

\* ------------------------------------------------------------ Python values

\* Python's None.
None == "None"

\* None in a field that otherwise holds a number (Optional[float], a list position).
NoNumber == -1

\* ------------------------------------------------------------------ state

VARIABLES
    \* AgentDebugger fields
    breakpoints,      \* dict bp_id -> Breakpoint
    state,            \* DebugState
    step_mode,        \* bool
    trace_history,    \* list
    interactive,      \* bool
    on_breakpoint_hit, \* whether the callback is set (TRUE) or None (FALSE)
    \* where the session's control is
    pc,               \* "idle": no call in progress; "running": inside runtime.execute;
                      \* "callback": awaiting on_breakpoint_hit; "input": blocked in input()
    in_run,           \* whether run_with_debugging is in progress
    run_pos,          \* the position in Events of the engine's next event
    inspects,         \* how many times the current pause was re-entered by inspect
    \* observation of the session
    command,          \* the command the latest input() gave, stripped and lowered
    pause_events,     \* pauses the engine's events led to since the run started
    cb_calls,         \* calls of on_breakpoint_hit since the latest pause began
    engine_outcome,   \* how runtime.execute ended
    run_result,           \* how run_with_debugging ended
    run_bps,          \* the registry as it was when the run in progress started
    \* observation of the latest operation
    last,             \* the operation and its arguments
    ret,              \* what it returned ("True", "False", None) or raised
    matched,          \* per bp_id: calls made on it while enabled and unconditional,
                      \* since it was set or the session was reset
    \* ToolCallTracer fields
    current_trace,    \* position in traces of the current ExecutionTrace, or None
    traces,           \* list of ExecutionTrace
    active_tool_calls, \* list of ToolCall (references into calls)
    call_stack_depth, \* int
    \* the tracer's environment
    calls,            \* the ToolCall objects that exist: calls[0] was built by the
                      \* caller, calls[n] (n > 0) by the n-th start_tool_call
    now,              \* what time.time() reads
    \* observation of the tracer
    tlast,            \* the latest tracer operation
    seq_open,         \* the calls of the current start/end sequence still open
    well_nested,      \* whether that sequence, begun at depth 0, is well nested so far
    \* the caller of start_tool_call
    caller_arguments, \* the dict the caller passes as `arguments`
    objects,          \* the mutable values that exist, by identity (lists)
    arguments_at_start, \* per ToolCall: what its arguments read as when it was started
    \* GraphVisualizer
    graph,            \* GraphSpec: entry_point, nodes, edges
    \* find_execution_paths in progress
    vis_pc,           \* "idle": no call in progress; "dfs": inside find_execution_paths
    start_node,       \* its start_node argument
    max_depth,        \* its max_depth argument
    dfs_stack,        \* the activations of dfs, the innermost last
    paths,            \* its local `paths`; when it has returned, what it returned
    \* StateInspector
    snapshots,        \* list of snapshot dicts
    comparison,       \* the latest compare_snapshots call: its arguments and result
    \* NodeInspector
    execution_history, \* list of NodeExecutionInfo
    inspection,       \* the latest inspect_* call: its arguments and result
    \* GraphVisualizer queries
    connectivity,     \* the latest get_node_connectivity call: its argument and result
    dot,              \* what the latest render_dot call returned: its edge lines
    \* EdgeRouteVisualizer
    traversal_history, \* list of traversal dicts
    edge_usage_stats, \* what the latest get_edge_usage_stats call returned
    \* the file system get_secure_path works on
    fs_dirs,          \* the directories that exist, each as its components from the root
    fs_links,         \* the symlinks that exist: path -> target
    secure_path,      \* the latest get_secure_path call: its arguments, the symlinks
                      \* there were, and its outcome
    \* the host process
    environ,          \* os.environ["HIVE"]
    \* what the tracer was told
    issued,           \* the record_node_enter, start_tool_call and record_edge_traversal
                      \* calls made, each with the trace that was current
    \* what the queries returned
    call_stats,       \* the get_tool_call_stats call just made: the current trace and the result
    routing_view      \* the latest visualize_routing_decision call: its argument and outcome

debuggerVars == <<breakpoints, state, step_mode, trace_history>>
observeVars == <<last, ret, matched>>
sessionVars ==
    <<interactive, on_breakpoint_hit, pc, in_run, run_pos, inspects, command,
      pause_events, cb_calls, engine_outcome, run_result, run_bps>>
tracerVars ==
    <<current_trace, traces, active_tool_calls, call_stack_depth, calls, now,
      tlast, seq_open, well_nested>>
callerVars == <<caller_arguments, objects, arguments_at_start>>
visualizerVars == <<graph, vis_pc, start_node, max_depth, dfs_stack, paths>>
inspectorVars == <<snapshots, comparison>>
nodeInspectorVars == <<execution_history, inspection>>
renderVars == <<connectivity, dot>>
routeVars == <<traversal_history, edge_usage_stats>>
securityVars == <<fs_dirs, fs_links, secure_path>>
hostVars == <<environ>>
eventVars == <<issued>>
reportVars == <<call_stats, routing_view>>
vars == <<debuggerVars, observeVars, sessionVars, tracerVars, callerVars, visualizerVars,
          inspectorVars, nodeInspectorVars, renderVars, routeVars, securityVars, hostVars, eventVars, reportVars>>

\* ------------------------------------------------------- BreakpointType

BreakpointType ==
    {"NODE_ENTER", "NODE_EXIT", "EDGE_TRAVERSE", "CONDITION_EVAL", "TOOL_CALL", "ERROR"}

\* BreakpointType.<member>.value
TypeValue(t) ==
    CASE t = "NODE_ENTER" -> "node_enter"
      [] t = "NODE_EXIT" -> "node_exit"
      [] t = "EDGE_TRAVERSE" -> "edge_traverse"
      [] t = "CONDITION_EVAL" -> "condition_eval"
      [] t = "TOOL_CALL" -> "tool_call"
      [] t = "ERROR" -> "error"

\* ------------------------------------------------------------ inputs

\* The (breakpoint_type, target) pairs the operator uses.
Identities == {<<"NODE_ENTER", "A">>, <<"NODE_ENTER", "B">>, <<"NODE_EXIT", "B">>}

\* Condition expressions the operator gives to set_breakpoint.
CondX == "context['x'] > 0"
CondExit == "__import__('sys').exit()"
Conditions == {None, "", CondX, CondExit}

\* Execution contexts handed to _should_break: {}, {"x": 0}, {"x": 1}.
EmptyContext == [k \in {} |-> 0]
Contexts == {EmptyContext, [k \in {"x"} |-> 0], [k \in {"x"} |-> 1]}

\* ------------------------------------------------------------ helpers

\* Mutant of FormatBpId: the id leaves out the event kind.
FormatBpIdTargetOnly(breakpoint_type, target) == target

\* f"{breakpoint_type.value}:{target}"
FormatBpId(breakpoint_type, target) == TypeValue(breakpoint_type) \o ":" \o target

\* bp_ids remove_breakpoint is called with: the registered forms and one that is none.
BpIds == {FormatBpId(p[1], p[2]) : p \in Identities} \cup {"B"}

\* Breakpoint(id=..., breakpoint_type=..., target=..., condition=...)
NewBreakpoint(bp_id, breakpoint_type, target, condition) ==
    [id |-> bp_id, breakpoint_type |-> breakpoint_type, target |-> target,
     condition |-> condition, enabled |-> TRUE, hit_count |-> 0]

\* DebugState()
NewDebugState ==
    [current_node |-> None, current_edge |-> None, context |-> EmptyContext,
     step_count |-> 0, tool_calls |-> <<>>, errors |-> <<>>, paused |-> FALSE]

\* bool(x) of an optional condition string
Truthy(condition) == condition # None /\ condition # ""

\* Conditions that reach beyond the context: one reads the environment of the
\* process, one sets it, one calls the debugger found in the calling frame.
CondEnv == "__import__('os').environ.get('HIVE') == '1'"
CondSetEnv == "__import__('os').environ.__setitem__('HIVE', '1') or True"
CondStep == "__import__('sys')._getframe(1).f_locals['self'].enable_step_mode() or True"

\* eval(condition, {"context": context}) in a process whose environment is env:
\* "truthy", "falsy", "Exception" (an exception derived from Exception) or
\* "BaseException" (one that is not). The globals given hold no __builtins__,
\* so eval supplies the builtins of the host.
EvalIn(condition, context, env) ==
    CASE condition = CondX ->
            IF "x" \notin DOMAIN context THEN "Exception"      \* KeyError
            ELSE IF context["x"] > 0 THEN "truthy" ELSE "falsy"
      [] condition = CondExit -> "BaseException"               \* SystemExit
      [] condition = CondEnv -> IF env = "1" THEN "truthy" ELSE "falsy"
      [] condition = CondSetEnv -> "truthy"
      [] condition = CondStep -> "truthy"
      [] OTHER -> "Exception"                                  \* SyntaxError

\* eval(condition, {"context": context})
Eval(condition, context) == EvalIn(condition, context, environ)

\* The record of an operation: its name, the bp_id and context it was given
\* (None, {} when it takes none) and whether bp_id was registered before it.
Op(op, bp_id, context) ==
    [op |-> op, bp_id |-> bp_id, context |-> context,
     existed |-> bp_id \in DOMAIN breakpoints]

\* dict with key k bound to v / without key k
DictSet(d, k, v) == [i \in DOMAIN d \cup {k} |-> IF i = k THEN v ELSE d[i]]
DictDel(d, k) == [i \in DOMAIN d \ {k} |-> d[i]]

\* ------------------------------------------------------------ Init

DebuggerInit ==
    /\ breakpoints = [i \in {} |-> 0]
    /\ state = NewDebugState
    /\ step_mode = FALSE
    /\ trace_history = <<>>

ObserveInit ==
    /\ last = [op |-> "__init__", bp_id |-> None, context |-> EmptyContext, existed |-> FALSE]
    /\ ret = None
    /\ matched = [i \in {} |-> 0]

\* An empty dict.
EmptyDict == [i \in {} |-> 0]

\* Values of an arguments dict: a str, or a list held by reference.
StrValue(text) == [kind |-> "str", v |-> text]
ListValue(id) == [kind |-> "list", v |-> id]

\* What a dict reads as: each key with its value, a list with its elements.
Contents(d, heap) ==
    [k \in DOMAIN d |->
        IF d[k].kind = "list" THEN [kind |-> "list", v |-> heap[d[k].v]]
        ELSE [kind |-> "str", v |-> <<d[k].v>>]]

\* The caller's arguments: {"query": "a", "ids": ids} with ids = ["x"]
CallerInit ==
    /\ caller_arguments =
          [k \in {"query", "ids"} |-> IF k = "ids" THEN ListValue("ids") ELSE StrValue("a")]
    /\ objects = [i \in {"ids"} |-> <<"x">>]
    /\ arguments_at_start = EmptyDict

\* The node ids of the graphs.
NodeIds == {"A", "B", "C"}

\* EdgeSpec(source=..., target=...)
Edge(source, target) == [source |-> source, target |-> target]

\* GraphSpec(entry_point="A", nodes=[A, B, C], edges=[A -> B, B -> C])
LinearGraph ==
    [entry_point |-> "A", nodes |-> <<"A", "B", "C">>,
     edges |-> <<Edge("A", "B"), Edge("B", "C")>>]

\* StateInspector(); no compare_snapshots call made yet
InspectorInit ==
    /\ snapshots = <<>>
    /\ comparison = [step1 |-> NoNumber, step2 |-> NoNumber, found |-> FALSE]

\* NodeInspector(graph); no inspect_* call made yet
NodeInspectorInit ==
    /\ execution_history = <<>>
    /\ inspection = [op |-> "__init__", node_id |-> None]

\* No get_node_connectivity or render_dot call made yet
RenderInit ==
    /\ connectivity = [node_id |-> None]
    /\ dot = <<>>

\* EdgeRouteVisualizer(graph); no get_edge_usage_stats call made yet
RouteInit ==
    /\ traversal_history = <<>>
    /\ edge_usage_stats = [total_traversals |-> NoNumber]

\* A file system with the root directory only; no get_secure_path call made yet
SecurityInit ==
    /\ fs_dirs = {<<>>}
    /\ fs_links = EmptyDict
    /\ secure_path = [outcome |-> "none"]

\* The process the debugger runs in, as it starts
HostInit == environ = "0"

\* Nothing told to the tracer yet
EventsInit == issued = <<>>

\* No get_tool_call_stats or visualize_routing_decision call made yet
ReportInit ==
    /\ call_stats = [trace |-> NoNumber]
    /\ routing_view = [outcome |-> "none"]

\* GraphVisualizer(g)
VisualizerInitWith(g) ==
    /\ graph = g
    /\ vis_pc = "idle"
    /\ start_node = None
    /\ max_depth = 0
    /\ dfs_stack = <<>>
    /\ paths = <<>>

\* ToolCall(tool_name, arguments, start_time), as a caller builds one
ForeignCall ==
    [tool_name |-> "search", arguments |-> EmptyDict, start_time |-> 0, end_time |-> NoNumber, duration_ms |-> NoNumber,
     result |-> None, error |-> None, status |-> "pending", call_stack_depth |-> 0]

TracerOp(op, ref) ==
    [op |-> op, call |-> ref, depth_before |-> call_stack_depth,
     open_before |-> Len(seq_open), nested |-> FALSE, result |-> None, error |-> None]

TracerInit ==
    /\ current_trace = NoNumber
    /\ traces = <<>>
    /\ active_tool_calls = <<>>
    /\ call_stack_depth = 0
    /\ calls = [i \in {0} |-> ForeignCall]
    /\ now = 1
    /\ tlast = [op |-> "__init__", call |-> NoNumber, depth_before |-> 0,
                open_before |-> 0, nested |-> FALSE, result |-> None, error |-> None]
    /\ seq_open = <<>>
    /\ well_nested = TRUE

\* AgentDebugger(runtime, interactive): the rest of __init__
SessionInitWith(is_interactive) ==
    /\ interactive = is_interactive
    /\ on_breakpoint_hit = FALSE
    /\ pc = "idle"
    /\ in_run = FALSE
    /\ run_pos = 0
    /\ inspects = 0
    /\ command = <<>>
    /\ pause_events = 0
    /\ cb_calls = 0
    /\ engine_outcome = None
    /\ run_result = None
    /\ run_bps = EmptyDict

\* AgentDebugger(runtime) and ToolCallTracer()
Init ==
    /\ DebuggerInit /\ ObserveInit /\ SessionInitWith(FALSE) /\ TracerInit /\ CallerInit
    /\ VisualizerInitWith(LinearGraph) /\ InspectorInit /\ NodeInspectorInit /\ RenderInit /\ RouteInit /\ SecurityInit /\ HostInit /\ EventsInit /\ ReportInit

\* AgentDebugger(runtime, interactive=...) and ToolCallTracer()
SessionInit ==
    /\ DebuggerInit /\ ObserveInit /\ TracerInit /\ CallerInit
    /\ VisualizerInitWith(LinearGraph) /\ InspectorInit /\ NodeInspectorInit /\ RenderInit /\ RouteInit /\ SecurityInit /\ HostInit /\ EventsInit /\ ReportInit
    /\ \E b \in BOOLEAN : SessionInitWith(b)

\* ------------------------------------------------------------ operations

\* Mutant of SetBreakpointKey: the key leaves out the event kind.
SetBreakpointKeyByTarget(breakpoint_type, target) == target

\* The registry key set_breakpoint stores the new breakpoint under.
SetBreakpointKey(breakpoint_type, target) == FormatBpId(breakpoint_type, target)

\* set_breakpoint(target, breakpoint_type, condition)
SetBreakpoint(target, breakpoint_type, condition) ==
    LET bp_id == FormatBpId(breakpoint_type, target)
        key == SetBreakpointKey(breakpoint_type, target)
    IN /\ breakpoints' =
            DictSet(breakpoints, key, NewBreakpoint(bp_id, breakpoint_type, target, condition))
       /\ matched' = DictSet(matched, key, 0)
       /\ last' = Op("set_breakpoint", bp_id, EmptyContext)
       /\ ret' = None
       /\ UNCHANGED <<state, step_mode, trace_history>>

\* remove_breakpoint(bp_id)
RemoveBreakpoint(bp_id) ==
    /\ IF bp_id \in DOMAIN breakpoints
       THEN /\ breakpoints' = DictDel(breakpoints, bp_id)
            /\ matched' = DictDel(matched, bp_id)
            /\ ret' = "True"
       ELSE /\ UNCHANGED <<breakpoints, matched>>
            /\ ret' = "False"
    /\ last' = Op("remove_breakpoint", bp_id, EmptyContext)
    /\ UNCHANGED <<state, step_mode, trace_history>>

\* bp.enabled = value, on a Breakpoint that set_breakpoint or list_breakpoints returned
SetEnabled(bp_id, value) ==
    /\ bp_id \in DOMAIN breakpoints
    /\ breakpoints[bp_id].enabled # value
    /\ breakpoints' = [breakpoints EXCEPT ![bp_id].enabled = value]
    /\ last' = Op("enabled", bp_id, EmptyContext)
    /\ ret' = None
    /\ UNCHANGED <<state, step_mode, trace_history, matched>>

\* enable_step_mode()
EnableStepMode ==
    /\ step_mode' = TRUE
    /\ last' = Op("enable_step_mode", None, EmptyContext)
    /\ ret' = None
    /\ UNCHANGED <<breakpoints, state, trace_history, matched>>

\* disable_step_mode()
DisableStepMode ==
    /\ step_mode' = FALSE
    /\ last' = Op("disable_step_mode", None, EmptyContext)
    /\ ret' = None
    /\ UNCHANGED <<breakpoints, state, trace_history, matched>>

\* Mutant of ShouldBreakResult: the hit is counted before the enabled flag is
\* looked at, so a disabled breakpoint counts calls too.
ShouldBreakResultCountsDisabled(bps, breakpoint_type, target, context) ==
    LET bp_id == FormatBpId(breakpoint_type, target)
        counted == [bps EXCEPT ![bp_id].hit_count = @ + 1]
    IN IF bp_id \notin DOMAIN bps THEN [ret |-> "False", breakpoints |-> bps]
       ELSE IF ~bps[bp_id].enabled THEN [ret |-> "False", breakpoints |-> counted]
       ELSE IF Truthy(bps[bp_id].condition)
            THEN CASE Eval(bps[bp_id].condition, context) = "truthy" ->
                        [ret |-> "True", breakpoints |-> counted]
                   [] Eval(bps[bp_id].condition, context) = "BaseException" ->
                        [ret |-> "BaseException", breakpoints |-> bps]
                   [] OTHER -> [ret |-> "False", breakpoints |-> bps]
            ELSE [ret |-> "True", breakpoints |-> counted]

\* Mutant of ShouldBreakResult: the hit is counted before the condition is
\* evaluated, so a condition that is false or fails still counts.
ShouldBreakResultCountsBeforeCondition(bps, breakpoint_type, target, context) ==
    LET bp_id == FormatBpId(breakpoint_type, target)
        counted == [bps EXCEPT ![bp_id].hit_count = @ + 1]
    IN IF bp_id \notin DOMAIN bps THEN [ret |-> "False", breakpoints |-> bps]
       ELSE IF ~bps[bp_id].enabled THEN [ret |-> "False", breakpoints |-> bps]
       ELSE IF Truthy(bps[bp_id].condition)
            THEN CASE Eval(bps[bp_id].condition, context) = "truthy" ->
                        [ret |-> "True", breakpoints |-> counted]
                   [] Eval(bps[bp_id].condition, context) = "BaseException" ->
                        [ret |-> "BaseException", breakpoints |-> counted]
                   [] OTHER -> [ret |-> "False", breakpoints |-> counted]
            ELSE [ret |-> "True", breakpoints |-> counted]

\* Mutant of ShouldBreakResult: a condition that is false or fails clears the
\* hit counter.
ShouldBreakResultMissClears(bps, breakpoint_type, target, context) ==
    LET bp_id == FormatBpId(breakpoint_type, target)
        cleared == [bps EXCEPT ![bp_id].hit_count = 0]
    IN IF bp_id \notin DOMAIN bps THEN [ret |-> "False", breakpoints |-> bps]
       ELSE IF ~bps[bp_id].enabled THEN [ret |-> "False", breakpoints |-> bps]
       ELSE IF Truthy(bps[bp_id].condition)
            THEN CASE Eval(bps[bp_id].condition, context) = "truthy" ->
                        [ret |-> "True",
                         breakpoints |-> [bps EXCEPT ![bp_id].hit_count = @ + 1]]
                   [] Eval(bps[bp_id].condition, context) = "BaseException" ->
                        [ret |-> "BaseException", breakpoints |-> bps]
                   [] OTHER -> [ret |-> "False", breakpoints |-> cleared]
            ELSE [ret |-> "True", breakpoints |-> [bps EXCEPT ![bp_id].hit_count = @ + 1]]

\* The outcome of _should_break on a registry: what it returns or raises, and
\* the registry it leaves.
ShouldBreakResult(bps, breakpoint_type, target, context) ==
    LET bp_id == FormatBpId(breakpoint_type, target)
        hit == [ret |-> "True",
                breakpoints |-> [bps EXCEPT ![bp_id].hit_count = @ + 1]]
        miss == [ret |-> "False", breakpoints |-> bps]
    IN IF bp_id \notin DOMAIN bps THEN miss
       ELSE IF ~bps[bp_id].enabled THEN miss
       ELSE IF Truthy(bps[bp_id].condition)
            THEN CASE Eval(bps[bp_id].condition, context) = "truthy" -> hit
                   [] Eval(bps[bp_id].condition, context) = "falsy" -> miss
                   [] Eval(bps[bp_id].condition, context) = "Exception" -> miss
                   [] OTHER -> [ret |-> "BaseException", breakpoints |-> bps]
            ELSE hit

\* Whether a _should_break call counts for `matched`: the breakpoint is
\* registered, enabled and has no condition.
IsUnconditionalMatch(bps, bp_id) ==
    /\ bp_id \in DOMAIN bps
    /\ bps[bp_id].enabled
    /\ ~Truthy(bps[bp_id].condition)

\* Whether _should_break on bp_id evaluates the condition: the breakpoint is
\* registered and enabled, and the condition is its.
Evaluates(bps, bp_id, condition) ==
    /\ bp_id \in DOMAIN bps
    /\ bps[bp_id].enabled
    /\ bps[bp_id].condition = condition

\* _should_break(breakpoint_type, target, context), called on its own
ShouldBreak(breakpoint_type, target, context) ==
    LET bp_id == FormatBpId(breakpoint_type, target)
        r == ShouldBreakResult(breakpoints, breakpoint_type, target, context)
    IN /\ bp_id \in DOMAIN breakpoints => breakpoints[bp_id].hit_count < MaxHits
       /\ breakpoints' = r.breakpoints
       /\ ret' = r.ret
       /\ last' = Op("_should_break", bp_id, context)
       /\ matched' = IF IsUnconditionalMatch(breakpoints, bp_id)
                     THEN [matched EXCEPT ![bp_id] = @ + 1]
                     ELSE matched
       /\ step_mode' = IF Evaluates(breakpoints, bp_id, CondStep) THEN TRUE ELSE step_mode
       /\ environ' = IF Evaluates(breakpoints, bp_id, CondSetEnv) THEN "1" ELSE environ
       /\ UNCHANGED <<state, trace_history>>

\* Mutant of Reset: the debug state is left as it is.
ResetKeepsState ==
    /\ trace_history' = <<>>
    /\ breakpoints' = [i \in DOMAIN breakpoints |-> [breakpoints[i] EXCEPT !.hit_count = 0]]
    /\ matched' = [i \in DOMAIN matched |-> 0]
    /\ last' = Op("reset", None, EmptyContext)
    /\ ret' = None
    /\ UNCHANGED <<state, step_mode>>

\* reset()
Reset ==
    /\ state' = NewDebugState
    /\ trace_history' = <<>>
    /\ breakpoints' = [i \in DOMAIN breakpoints |-> [breakpoints[i] EXCEPT !.hit_count = 0]]
    /\ matched' = [i \in DOMAIN matched |-> 0]
    /\ last' = Op("reset", None, EmptyContext)
    /\ ret' = None
    /\ UNCHANGED step_mode

\* ------------------------------------------------------------ Spec

Next ==
    \/ \E p \in Identities, c \in Conditions :
          SetBreakpoint(p[2], p[1], c) /\ UNCHANGED <<sessionVars, tracerVars, callerVars, visualizerVars, inspectorVars, nodeInspectorVars, renderVars, routeVars, securityVars, hostVars, eventVars, reportVars>>
    \/ \E i \in BpIds : RemoveBreakpoint(i) /\ UNCHANGED <<sessionVars, tracerVars, callerVars, visualizerVars, inspectorVars, nodeInspectorVars, renderVars, routeVars, securityVars, hostVars, eventVars, reportVars>>
    \/ \E i \in BpIds, v \in BOOLEAN : SetEnabled(i, v) /\ UNCHANGED <<sessionVars, tracerVars, callerVars, visualizerVars, inspectorVars, nodeInspectorVars, renderVars, routeVars, securityVars, hostVars, eventVars, reportVars>>
    \/ \E p \in Identities \cup {<<"NODE_EXIT", "A">>}, x \in Contexts :
          ShouldBreak(p[1], p[2], x) /\ UNCHANGED <<sessionVars, tracerVars, callerVars, visualizerVars, inspectorVars, nodeInspectorVars, renderVars, routeVars, securityVars, hostVars, eventVars, reportVars>>
    \/ Reset /\ UNCHANGED <<sessionVars, tracerVars, callerVars, visualizerVars, inspectorVars, nodeInspectorVars, renderVars, routeVars, securityVars, hostVars, eventVars, reportVars>>

Spec == Init /\ [][Next]_vars

\* ================================================================ session

\* The graph of the run: A -> B -> C, C terminal.
Nodes == <<"A", "B", "C">>

\* The events of one run of the engine over Nodes, in execution order: each
\* node is entered, then left.
Events ==
    [i \in 1..(2 * Len(Nodes)) |->
        [breakpoint_type |-> IF i % 2 = 1 THEN "NODE_ENTER" ELSE "NODE_EXIT",
         target |-> Nodes[(i + 1) \div 2]]]

\* The (breakpoint_type, target) pairs and conditions of a debugged run.
SessionIdentities == {<<"NODE_ENTER", "B">>, <<"NODE_EXIT", "C">>}
SessionConditions == {None, CondX, CondExit}
SessionContexts == {EmptyContext, [k \in {"x"} |-> 1]}

\* What the operator types at the debugger> prompt, character by character.
RawInputs ==
    {<<"c">>, <<"C", " ">>, <<"s">>, <<" ", "S">>, <<"i">>, <<"I">>, <<"q">>,
     <<" ", "Q", " ">>, <<"x">>}

\* str.strip()
RECURSIVE LStrip(_)
LStrip(chars) ==
    IF chars # <<>> /\ Head(chars) = " " THEN LStrip(Tail(chars)) ELSE chars
RECURSIVE RStrip(_)
RStrip(chars) ==
    IF chars # <<>> /\ chars[Len(chars)] = " "
    THEN RStrip(SubSeq(chars, 1, Len(chars) - 1)) ELSE chars
Strip(chars) == RStrip(LStrip(chars))

\* str.lower()
LowerChar(ch) ==
    CASE ch = "C" -> "c" [] ch = "S" -> "s" [] ch = "I" -> "i" [] ch = "Q" -> "q"
      [] ch = "X" -> "x" [] OTHER -> ch
Lower(chars) == [i \in 1..Len(chars) |-> LowerChar(chars[i])]

\* input("debugger> ").strip().lower()
ReadCommand(raw) == Lower(Strip(raw))

\* Where control goes when _pause_at_breakpoint returns: back into the engine's
\* run, or to the caller that called it on its own.
ReturnPc == IF in_run THEN "running" ELSE "idle"

\* debugger.on_breakpoint_hit = callback
SetCallback ==
    /\ ~on_breakpoint_hit
    /\ on_breakpoint_hit' = TRUE
    /\ last' = Op("on_breakpoint_hit", None, EmptyContext)
    /\ ret' = None
    /\ UNCHANGED <<debuggerVars, matched, interactive, pc, in_run, run_pos, inspects,
                   command, pause_events, cb_calls, engine_outcome, run_result, run_bps>>

\* Mutant of PausedAfterEntry: a non-interactive pause leaves the flag set.
PausedAfterEntryNeverCleared(has_callback, is_interactive) == TRUE

\* _pause_at_breakpoint from its entry to where it first stops (the await of the
\* callback, input(), or its return): the paused flag it leaves.
PausedAfterEntry(has_callback, is_interactive) ==
    IF has_callback THEN TRUE           \* line 161, then awaiting line 164
    ELSE IF is_interactive THEN TRUE    \* line 161, then blocked in line 177
    ELSE FALSE                          \* line 161, then line 190

\* ... and where it stops.
PcAfterEntry(has_callback, is_interactive, return_pc) ==
    IF has_callback THEN "callback"
    ELSE IF is_interactive THEN "input"
    ELSE return_pc

\* _pause_at_breakpoint(breakpoint, state), entered by a caller (top) or by its
\* own inspect branch: lines 161-164.
EnterPause(top, return_pc) ==
    /\ state' = [state EXCEPT !.paused = PausedAfterEntry(on_breakpoint_hit, interactive)]
    /\ pc' = PcAfterEntry(on_breakpoint_hit, interactive, return_pc)
    /\ cb_calls' = (IF top THEN 0 ELSE cb_calls) + (IF on_breakpoint_hit THEN 1 ELSE 0)
    /\ inspects' = IF top THEN 0 ELSE inspects + 1

\* await debugger._pause_at_breakpoint(breakpoint, state), called on its own
PauseAtBreakpoint(bp_id) ==
    /\ pc = "idle"
    /\ bp_id \in DOMAIN breakpoints
    /\ EnterPause(TRUE, "idle")
    /\ last' = Op("_pause_at_breakpoint", bp_id, EmptyContext)
    /\ ret' = None
    /\ command' = <<>>
    /\ UNCHANGED <<breakpoints, step_mode, trace_history, matched, interactive,
                   on_breakpoint_hit, in_run, run_pos, pause_events, engine_outcome,
                   run_result, run_bps>>

\* on_breakpoint_hit returned: lines 166-190 up to input() or the return
PausedAfterCallback(is_interactive) == is_interactive

CallbackReturns ==
    /\ pc = "callback"
    /\ state' = [state EXCEPT !.paused = PausedAfterCallback(interactive)]
    /\ pc' = IF interactive THEN "input" ELSE ReturnPc
    /\ last' = Op("on_breakpoint_hit returns", last.bp_id, EmptyContext)
    /\ ret' = None
    /\ UNCHANGED <<breakpoints, step_mode, trace_history, matched, interactive,
                   on_breakpoint_hit, in_run, run_pos, inspects, command, pause_events,
                   cb_calls, engine_outcome, run_result, run_bps>>

\* Mutant of RunReturn: KeyboardInterrupt is not caught.
RunReturnUncaught(outcome) == outcome

\* run_with_debugging, lines 223-228: what it returns (or raises) for each way
\* runtime.execute can end.
RunReturn(outcome) ==
    IF outcome = "KeyboardInterrupt" THEN "debugging_stopped" ELSE outcome

\* Mutant of StepModeAfterCommand: continue arms step mode as step does.
StepModeAfterCommandContinueArms(cmd, mode) ==
    IF cmd = <<"s">> \/ cmd = <<"c">> THEN TRUE ELSE mode

\* step_mode after the command (lines 179-188)
StepModeAfterCommand(cmd, mode) == IF cmd = <<"s">> THEN TRUE ELSE mode

\* Mutant of PcAfterCommand: after single-step the coroutine waits and never
\* returns.
PcAfterCommandStepWaits(cmd, return_pc) == IF cmd = <<"s">> THEN "waiting" ELSE return_pc

\* Where control is after the command c or s (lines 179-183): back in the
\* caller.
PcAfterCommand(cmd, return_pc) == return_pc

\* The operator answers the prompt of line 177 with `raw`: lines 177-188.
OperatorInput(raw) ==
    LET cmd == ReadCommand(raw)
    IN /\ pc = "input"
       /\ cmd = <<"i">> => inspects < MaxInspects
       /\ command' = cmd
       /\ last' = Op("input", last.bp_id, EmptyContext)
       /\ step_mode' = StepModeAfterCommand(cmd, step_mode)
       /\ CASE cmd = <<"c">> \/ cmd = <<"s">> ->
                 /\ state' = [state EXCEPT !.paused = FALSE]
                 /\ pc' = PcAfterCommand(cmd, ReturnPc)
                 /\ ret' = None
                 /\ UNCHANGED <<inspects, cb_calls, in_run, engine_outcome, run_result, run_bps>>
            [] cmd = <<"i">> ->
                 /\ EnterPause(FALSE, ReturnPc)
                 /\ ret' = None
                 /\ UNCHANGED <<in_run, engine_outcome, run_result, run_bps>>
            [] cmd = <<"q">> ->
                 /\ pc' = "idle"
                 /\ ret' = "KeyboardInterrupt"
                 /\ in_run' = FALSE
                 /\ engine_outcome' = IF in_run THEN "KeyboardInterrupt" ELSE engine_outcome
                 /\ run_result' = IF in_run THEN RunReturn("KeyboardInterrupt") ELSE run_result
                 /\ run_bps' = EmptyDict
                 /\ UNCHANGED <<state, inspects, cb_calls>>
            [] OTHER ->
                 /\ pc' = ReturnPc
                 /\ ret' = None
                 /\ UNCHANGED <<state, inspects, cb_calls, in_run, engine_outcome, run_result,
                                run_bps>>
       /\ UNCHANGED <<breakpoints, trace_history, matched, interactive, on_breakpoint_hit,
                      run_pos, pause_events>>

\* run_with_debugging(context), lines 217-224: up to the call of runtime.execute
RunWithDebugging(context) ==
    /\ pc = "idle"
    /\ \A i \in DOMAIN breakpoints : breakpoints[i].hit_count < MaxHits
    /\ state' = [state EXCEPT !.context = context, !.step_count = 0]
    /\ trace_history' = <<>>
    /\ pc' = "running"
    /\ in_run' = TRUE
    /\ run_pos' = 1
    /\ pause_events' = 0
    /\ engine_outcome' = None
    /\ run_result' = None
    /\ run_bps' = breakpoints
    /\ command' = <<>>
    /\ last' = Op("run_with_debugging", None, context)
    /\ ret' = None
    /\ UNCHANGED <<breakpoints, step_mode, matched, interactive, on_breakpoint_hit,
                   inspects, cb_calls>>

\* runtime.execute reaches its next event and invokes the session's hook for
\* it: _should_break, then _pause_at_breakpoint when it says so.
EngineEvent ==
    /\ pc = "running"
    /\ run_pos <= Len(Events)
    /\ LET e == Events[run_pos]
           bp_id == FormatBpId(e.breakpoint_type, e.target)
           r == ShouldBreakResult(breakpoints, e.breakpoint_type, e.target, state.context)
       IN /\ breakpoints' = r.breakpoints
          /\ matched' = IF IsUnconditionalMatch(breakpoints, bp_id)
                        THEN [matched EXCEPT ![bp_id] = @ + 1]
                        ELSE matched
          /\ last' = Op("engine event", bp_id, state.context)
          /\ ret' = r.ret
          /\ run_pos' = run_pos + 1
          /\ CASE r.ret = "True" ->
                    /\ EnterPause(TRUE, "running")
                    /\ pause_events' = pause_events + 1
                    /\ UNCHANGED <<in_run, engine_outcome, run_result, run_bps>>
               [] r.ret = "False" ->
                    /\ UNCHANGED <<state, pc, cb_calls, inspects, pause_events, in_run,
                                   engine_outcome, run_result, run_bps>>
               [] OTHER ->
                    /\ pc' = "idle"
                    /\ in_run' = FALSE
                    /\ engine_outcome' = r.ret
                    /\ run_result' = RunReturn(r.ret)
                    /\ run_bps' = EmptyDict
                    /\ UNCHANGED <<state, cb_calls, inspects, pause_events>>
    /\ UNCHANGED <<step_mode, trace_history, interactive, on_breakpoint_hit, command>>

\* runtime.execute returns its result after the last event, and
\* run_with_debugging returns it (line 225).
EngineFinish ==
    /\ pc = "running"
    /\ run_pos > Len(Events)
    /\ pc' = "idle"
    /\ in_run' = FALSE
    /\ engine_outcome' = "engine_result"
    /\ run_result' = RunReturn("engine_result")
    /\ run_bps' = EmptyDict
    /\ last' = Op("run_with_debugging returns", None, EmptyContext)
    /\ ret' = None
    /\ UNCHANGED <<debuggerVars, matched, interactive, on_breakpoint_hit, run_pos,
                   inspects, command, pause_events, cb_calls>>

\* The session's own variables left alone by a registry operation.
SessionIdle == pc = "idle" /\ UNCHANGED <<sessionVars, tracerVars, callerVars, visualizerVars, inspectorVars, nodeInspectorVars, renderVars, routeVars, securityVars, hostVars, eventVars, reportVars>>

SessionNext ==
    \/ \E p \in SessionIdentities, c \in SessionConditions :
          SetBreakpoint(p[2], p[1], c) /\ SessionIdle
    \/ EnableStepMode /\ SessionIdle
    \/ DisableStepMode /\ SessionIdle
    \/ Reset /\ SessionIdle
    \/ pc = "idle" /\ SetCallback /\ UNCHANGED <<tracerVars, callerVars, visualizerVars, inspectorVars, nodeInspectorVars, renderVars, routeVars, securityVars, hostVars, eventVars, reportVars>>
    \/ \E p \in SessionIdentities :
          PauseAtBreakpoint(FormatBpId(p[1], p[2])) /\ UNCHANGED <<tracerVars, callerVars, visualizerVars, inspectorVars, nodeInspectorVars, renderVars, routeVars, securityVars, hostVars, eventVars, reportVars>>
    \/ \E x \in SessionContexts : RunWithDebugging(x) /\ UNCHANGED <<tracerVars, callerVars, visualizerVars, inspectorVars, nodeInspectorVars, renderVars, routeVars, securityVars, hostVars, eventVars, reportVars>>
    \/ EngineEvent /\ UNCHANGED <<tracerVars, callerVars, visualizerVars, inspectorVars, nodeInspectorVars, renderVars, routeVars, securityVars, hostVars, eventVars, reportVars>>
    \/ EngineFinish /\ UNCHANGED <<tracerVars, callerVars, visualizerVars, inspectorVars, nodeInspectorVars, renderVars, routeVars, securityVars, hostVars, eventVars, reportVars>>
    \/ CallbackReturns /\ UNCHANGED <<tracerVars, callerVars, visualizerVars, inspectorVars, nodeInspectorVars, renderVars, routeVars, securityVars, hostVars, eventVars, reportVars>>
    \/ \E raw \in RawInputs : OperatorInput(raw) /\ UNCHANGED <<tracerVars, callerVars, visualizerVars, inspectorVars, nodeInspectorVars, renderVars, routeVars, securityVars, hostVars, eventVars, reportVars>>

SessionSpec == SessionInit /\ [][SessionNext]_vars

\* ================================================================ tracer

ToolNames == {"search"}
TraceIds == {"t1"}
\* The (result, error) pairs end_tool_call is given.
EndArguments == {[result |-> "ok", error |-> None]}

Max(a, b) == IF a >= b THEN a ELSE b

\* ExecutionTrace(trace_id=trace_id, start_time=time.time())
NewTrace(trace_id, t) ==
    [trace_id |-> trace_id, start_time |-> t, end_time |-> NoNumber, node_sequence |-> <<>>,
     tool_calls |-> <<>>, edge_traversals |-> <<>>, total_duration_ms |-> NoNumber]

\* Mutant of StartTrace: an unfinished current trace stays the current one.
StartTraceKeepsOpen(trace_id) ==
    /\ traces' = Append(traces, NewTrace(trace_id, now))
    /\ current_trace' = IF current_trace = NoNumber THEN Len(traces) + 1 ELSE current_trace
    /\ tlast' = TracerOp("start_trace", NoNumber)
    /\ UNCHANGED <<active_tool_calls, call_stack_depth, calls, now, seq_open, well_nested>>

\* start_trace(trace_id)
StartTrace(trace_id) ==
    /\ traces' = Append(traces, NewTrace(trace_id, now))
    /\ current_trace' = Len(traces) + 1
    /\ tlast' = TracerOp("start_trace", NoNumber)
    /\ UNCHANGED <<active_tool_calls, call_stack_depth, calls, now, seq_open, well_nested>>

\* The ExecutionTrace as end_trace leaves it.
EndedTrace(trace, t) ==
    [trace EXCEPT !.end_time = t,
                  !.total_duration_ms = IF trace.start_time # 0
                                        THEN (t - trace.start_time) * 1000
                                        ELSE @]

\* end_trace()
EndTrace ==
    /\ IF current_trace = NoNumber
       THEN UNCHANGED traces
       ELSE traces' = [traces EXCEPT ![current_trace] = EndedTrace(@, now)]
    /\ current_trace' = NoNumber
    /\ tlast' = TracerOp("end_trace", current_trace)    \* .call: the trace returned
    /\ UNCHANGED <<active_tool_calls, call_stack_depth, calls, now, seq_open, well_nested>>

\* Mutant of NewToolCall: the depth is stamped after the increment.
NewToolCallAfterIncrement(tool_name, arguments, t, depth) ==
    [tool_name |-> tool_name, arguments |-> arguments, start_time |-> t, end_time |-> NoNumber, duration_ms |-> NoNumber,
     result |-> None, error |-> None, status |-> "pending", call_stack_depth |-> depth + 1]

\* dict.copy(): a new dict with the same keys bound to the same values
DictCopy(d) == [k \in DOMAIN d |-> d[k]]

\* ToolCall(tool_name=..., arguments=..., start_time=time.time(),
\*          call_stack_depth=self.call_stack_depth)
NewToolCall(tool_name, arguments, t, depth) ==
    [tool_name |-> tool_name, arguments |-> arguments, start_time |-> t, end_time |-> NoNumber, duration_ms |-> NoNumber,
     result |-> None, error |-> None, status |-> "pending", call_stack_depth |-> depth]

\* start_tool_call(tool_name, arguments), arguments being the caller's dict
StartToolCall(tool_name) ==
    LET ref == Cardinality(DOMAIN calls)
    IN /\ calls' = DictSet(calls, ref,
                         NewToolCall(tool_name, DictCopy(caller_arguments), now,
                                     call_stack_depth))
       /\ arguments_at_start' =
             DictSet(arguments_at_start, ref, Contents(caller_arguments, objects))
       /\ UNCHANGED <<caller_arguments, objects>>
       /\ active_tool_calls' = Append(active_tool_calls, ref)
       /\ call_stack_depth' = call_stack_depth + 1
       /\ traces' = IF current_trace = NoNumber THEN traces
                    ELSE [traces EXCEPT ![current_trace].tool_calls = Append(@, ref)]
       /\ tlast' = [TracerOp("start_tool_call", ref) EXCEPT
                       !.nested = (call_stack_depth = 0 \/ well_nested)]
       /\ seq_open' = IF call_stack_depth = 0 THEN <<ref>> ELSE Append(seq_open, ref)
       /\ well_nested' = (call_stack_depth = 0 \/ well_nested)
       /\ UNCHANGED <<current_trace, now>>

\* Mutant of EndedCall: the error is dropped and the call marked a success.
EndedCallAlwaysSuccess(tc, t, result, error) ==
    [tc EXCEPT !.end_time = t,
               !.duration_ms = IF tc.start_time # 0 /\ t # 0
                               THEN (t - tc.start_time) * 1000
                               ELSE @,
               !.status = "success", !.result = result]

\* The ToolCall as end_tool_call leaves it.
EndedCall(tc, t, result, error) ==
    LET timed == [tc EXCEPT !.end_time = t,
                            !.duration_ms = IF tc.start_time # 0 /\ t # 0
                                            THEN (t - tc.start_time) * 1000
                                            ELSE @]
    IN IF error # None /\ error # ""
       THEN [timed EXCEPT !.status = "failed", !.error = error]
       ELSE [timed EXCEPT !.status = "success", !.result = result]

\* Mutant of ListRemove: the latest element is taken off, as from a stack.
ListRemoveLast(list, ref, heap) == SubSeq(list, 1, Len(list) - 1)

\* list.remove(x): the list without its first element that is x or equals x
RECURSIVE ListRemove(_, _, _)
ListRemove(list, ref, heap) ==
    IF list = <<>> THEN <<>>
    ELSE IF Head(list) = ref \/ heap[Head(list)] = heap[ref] THEN Tail(list)
    ELSE <<Head(list)>> \o ListRemove(Tail(list), ref, heap)

\* Mutant of DepthAfterEnd: the decrement has no floor.
DepthAfterEndNoFloor(depth) == depth - 1

\* max(0, self.call_stack_depth - 1)
DepthAfterEnd(depth) == Max(0, depth - 1)

\* end_tool_call(tool_call, result, error)
EndToolCall(ref, result, error) ==
    LET heap == [calls EXCEPT ![ref] = EndedCall(calls[ref], now, result, error)]
        top == seq_open # <<>> /\ seq_open[Len(seq_open)] = ref
        depth == DepthAfterEnd(call_stack_depth)
    IN /\ ref \in DOMAIN calls
       /\ calls' = heap
       /\ active_tool_calls' = ListRemove(active_tool_calls, ref, heap)
       /\ call_stack_depth' = depth
       /\ tlast' = [TracerOp("end_tool_call", ref) EXCEPT
                       !.nested = (well_nested /\ top), !.result = result, !.error = error]
       /\ seq_open' = IF depth = 0 THEN <<>>
                      ELSE IF top THEN SubSeq(seq_open, 1, Len(seq_open) - 1)
                      ELSE seq_open
       /\ well_nested' = (depth = 0 \/ (well_nested /\ top))
       /\ UNCHANGED <<current_trace, traces, now>>

\* Mutant of NodeEntered: with no current trace, the latest trace gets the node.
NodeEnteredLatest(trs, cur, node_id) ==
    IF trs = <<>> THEN trs
    ELSE [trs EXCEPT ![IF cur = NoNumber THEN Len(trs) ELSE cur].node_sequence =
                         Append(@, node_id)]

\* The traces after record_node_enter(node_id), cur being the current trace.
NodeEntered(trs, cur, node_id) ==
    IF cur = NoNumber THEN trs
    ELSE [trs EXCEPT ![cur].node_sequence = Append(@, node_id)]

\* record_node_enter(node_id)
RecordNodeEnter(node_id) ==
    /\ traces' = NodeEntered(traces, current_trace, node_id)
    /\ tlast' = TracerOp("record_node_enter", NoNumber)
    /\ UNCHANGED <<current_trace, active_tool_calls, call_stack_depth, calls, now, seq_open,
                   well_nested>>

\* record_edge_traversal(edge_id, source, target, condition)
RecordEdgeTraversal(edge_id, source, target, condition) ==
    /\ traces' = IF current_trace = NoNumber THEN traces
                 ELSE [traces EXCEPT ![current_trace].edge_traversals =
                          Append(@, [edge_id |-> edge_id, source |-> source,
                                     target |-> target, condition |-> condition,
                                     timestamp |-> now])]
    /\ tlast' = TracerOp("record_edge_traversal", NoNumber)
    /\ UNCHANGED <<current_trace, active_tool_calls, call_stack_depth, calls, now, seq_open,
                   well_nested>>

\* sum(list)
RECURSIVE Sum(_)
Sum(list) == IF list = <<>> THEN 0 ELSE Head(list) + Sum(Tail(list))

\* [x for x in list if keep(x)], for the positions kept
RECURSIVE Filter(_, _)
Filter(list, kept) ==
    IF list = <<>> THEN <<>>
    ELSE (IF Len(list) \in kept THEN Filter(SubSeq(list, 1, Len(list) - 1), kept) \o <<list[Len(list)]>>
          ELSE Filter(SubSeq(list, 1, Len(list) - 1), kept))

\* The "timing" entry: total, average (as sum and number), least and greatest.
Timing(durations) ==
    LET values == {durations[i] : i \in 1..Len(durations)}
    IN [total_ms |-> Sum(durations),
        average_ms |-> <<Sum(durations), Len(durations)>>,
        min_ms |-> CHOOSE d \in values : \A e \in values : d <= e,
        max_ms |-> CHOOSE d \in values : \A e \in values : d >= e]

\* tool_stats[name] after the loop over the ToolCalls tcs.
ToolStats(tcs, name) ==
    LET mine == {i \in 1..Len(tcs) : tcs[i].tool_name = name}
    IN [count |-> Cardinality(mine),
        success |-> Cardinality({i \in mine : tcs[i].status = "success"}),
        failed |-> Cardinality({i \in mine : tcs[i].status = "failed"}),
        total_duration_ms |->
            Sum(Filter([i \in 1..Len(tcs) |-> tcs[i].duration_ms],
                       {i \in mine : tcs[i].duration_ms # NoNumber /\ tcs[i].duration_ms # 0}))]

\* Mutant of ToolCallStats: the tool calls of every trace are counted.
ToolCallStatsAllTraces(cur, trs, cs) ==
    IF cur = NoNumber THEN [error |-> "No active trace"]
    ELSE LET RECURSIVE All(_)
             All(k) == IF k > Len(trs) THEN <<>> ELSE trs[k].tool_calls \o All(k + 1)
             tool_calls == [i \in 1..Len(All(1)) |-> cs[All(1)[i]]]
             names == {tool_calls[i].tool_name : i \in 1..Len(tool_calls)}
         IN [total_calls |-> Len(tool_calls),
             successful |->
                 Cardinality({i \in 1..Len(tool_calls) : tool_calls[i].status = "success"}),
             failed |->
                 Cardinality({i \in 1..Len(tool_calls) : tool_calls[i].status = "failed"}),
             tools_used |-> names,
             by_tool |-> [name \in names |-> ToolStats(tool_calls, name)]]

\* get_tool_call_stats() of a tracer whose fields are cur, trs, and the
\* ToolCalls cs; tools_used, the list of a set, is kept as the set, and
\* "timing" is there when a call has a duration.
ToolCallStats(cur, trs, cs) ==
    IF cur = NoNumber THEN [error |-> "No active trace"]
    ELSE LET tool_calls == [i \in 1..Len(trs[cur].tool_calls) |-> cs[trs[cur].tool_calls[i]]]
             durations == Filter([i \in 1..Len(tool_calls) |-> tool_calls[i].duration_ms],
                                 {i \in 1..Len(tool_calls) : tool_calls[i].duration_ms # NoNumber})
             names == {tool_calls[i].tool_name : i \in 1..Len(tool_calls)}
             stats_ == [total_calls |-> Len(tool_calls),
                        successful |->
                            Cardinality({i \in 1..Len(tool_calls) : tool_calls[i].status = "success"}),
                        failed |->
                            Cardinality({i \in 1..Len(tool_calls) : tool_calls[i].status = "failed"}),
                        tools_used |-> names,
                        by_tool |-> [name \in names |-> ToolStats(tool_calls, name)]]
         IN IF durations # <<>> THEN stats_ @@ [timing |-> Timing(durations)] ELSE stats_

\* get_tool_call_stats()
GetToolCallStats == ToolCallStats(current_trace, traces, calls)

\* get_tool_call_stats(), its result kept with the trace that is current
QueryToolCallStats ==
    /\ call_stats' = [trace |-> current_trace, result |-> GetToolCallStats]
    /\ UNCHANGED routing_view
    /\ UNCHANGED tracerVars

\* clear_traces()
ClearTraces ==
    /\ traces' = <<>>
    /\ current_trace' = NoNumber
    /\ active_tool_calls' = <<>>
    /\ call_stack_depth' = 0
    /\ tlast' = TracerOp("clear_traces", NoNumber)
    /\ seq_open' = <<>>
    /\ well_nested' = TRUE
    /\ UNCHANGED <<calls, now>>

TracerNext ==
    \/ \E i \in TraceIds :
          Len(traces) < MaxTraces /\ StartTrace(i) /\ UNCHANGED <<debuggerVars, observeVars, sessionVars, callerVars, visualizerVars, inspectorVars, nodeInspectorVars, renderVars, routeVars, securityVars, hostVars, eventVars, reportVars>>
    \/ EndTrace /\ UNCHANGED <<debuggerVars, observeVars, sessionVars, callerVars, visualizerVars, inspectorVars, nodeInspectorVars, renderVars, routeVars, securityVars, hostVars, eventVars, reportVars>>
    \/ \E n \in ToolNames :
          /\ Cardinality(DOMAIN calls) <= MaxCalls
          /\ StartToolCall(n) /\ UNCHANGED <<debuggerVars, observeVars, sessionVars, visualizerVars, inspectorVars, nodeInspectorVars, renderVars, routeVars, securityVars, hostVars, eventVars, reportVars>>
    \/ \E r \in 0..MaxCalls, a \in EndArguments :
          EndToolCall(r, a.result, a.error) /\ UNCHANGED <<debuggerVars, observeVars, sessionVars, callerVars, visualizerVars, inspectorVars, nodeInspectorVars, renderVars, routeVars, securityVars, hostVars, eventVars, reportVars>>
    \/ ClearTraces /\ UNCHANGED <<debuggerVars, observeVars, sessionVars, callerVars, visualizerVars, inspectorVars, nodeInspectorVars, renderVars, routeVars, securityVars, hostVars, eventVars, reportVars>>

TracerSpec == Init /\ [][TracerNext]_vars

\* The tracer used for several traces, started before the previous one ended.
TraceHistoryNext ==
    \/ \E i \in TraceIds :
          Len(traces) < MaxStarts /\ StartTrace(i) /\ UNCHANGED <<debuggerVars, observeVars, sessionVars, callerVars, visualizerVars, inspectorVars, nodeInspectorVars, renderVars, routeVars, securityVars, hostVars, eventVars, reportVars>>
    \/ EndTrace /\ UNCHANGED <<debuggerVars, observeVars, sessionVars, callerVars, visualizerVars, inspectorVars, nodeInspectorVars, renderVars, routeVars, securityVars, hostVars, eventVars, reportVars>>
    \/ \E n \in ToolNames :
          /\ Cardinality(DOMAIN calls) <= MaxCalls
          /\ StartToolCall(n) /\ UNCHANGED <<debuggerVars, observeVars, sessionVars, visualizerVars, inspectorVars, nodeInspectorVars, renderVars, routeVars, securityVars, hostVars, eventVars, reportVars>>
    \/ ClearTraces /\ UNCHANGED <<debuggerVars, observeVars, sessionVars, callerVars, visualizerVars, inspectorVars, nodeInspectorVars, renderVars, routeVars, securityVars, hostVars, eventVars, reportVars>>

TraceHistorySpec == Init /\ [][TraceHistoryNext]_vars

\* The (result, error) pairs of calls that succeed and calls that fail.
OutcomeArguments ==
    {[result |-> "ok", error |-> None], [result |-> None, error |-> "timeout"]}

\* time.time() reads later than it did.
Tick ==
    /\ now' = now + 1
    /\ tlast' = TracerOp("time passes", NoNumber)
    /\ UNCHANGED <<current_trace, traces, active_tool_calls, call_stack_depth, calls,
                   seq_open, well_nested>>

\* The tracer used for calls that end well or badly, once or more, as time passes.
OutcomeNext ==
    \/ \E i \in TraceIds :
          Len(traces) < MaxTraces /\ StartTrace(i) /\ UNCHANGED <<debuggerVars, observeVars, sessionVars, callerVars, visualizerVars, inspectorVars, nodeInspectorVars, renderVars, routeVars, securityVars, hostVars, eventVars, reportVars>>
    \/ EndTrace /\ UNCHANGED <<debuggerVars, observeVars, sessionVars, callerVars, visualizerVars, inspectorVars, nodeInspectorVars, renderVars, routeVars, securityVars, hostVars, eventVars, reportVars>>
    \/ \E n \in ToolNames :
          /\ Cardinality(DOMAIN calls) <= MaxEnded
          /\ StartToolCall(n) /\ UNCHANGED <<debuggerVars, observeVars, sessionVars, visualizerVars, inspectorVars, nodeInspectorVars, renderVars, routeVars, securityVars, hostVars, eventVars, reportVars>>
    \/ \E r \in 1..MaxEnded, a \in OutcomeArguments :
          EndToolCall(r, a.result, a.error) /\ UNCHANGED <<debuggerVars, observeVars, sessionVars, callerVars, visualizerVars, inspectorVars, nodeInspectorVars, renderVars, routeVars, securityVars, hostVars, eventVars, reportVars>>
    \/ now < MaxTime /\ Tick /\ UNCHANGED <<debuggerVars, observeVars, sessionVars, callerVars, visualizerVars, inspectorVars, nodeInspectorVars, renderVars, routeVars, securityVars, hostVars, eventVars, reportVars>>

OutcomeSpec == Init /\ [][OutcomeNext]_vars

\* Keys and str values the caller uses in its arguments dict.
ArgumentKeys == {"query", "ids", "limit"}
ArgumentTexts == {"a", "b"}

\* arguments[key] = text, by the caller
CallerSetsKey(key, text) ==
    /\ caller_arguments' = DictSet(caller_arguments, key, StrValue(text))
    /\ UNCHANGED <<objects, arguments_at_start>>

\* del arguments[key], by the caller
CallerDeletesKey(key) ==
    /\ key \in DOMAIN caller_arguments
    /\ caller_arguments' = DictDel(caller_arguments, key)
    /\ UNCHANGED <<objects, arguments_at_start>>

\* ids.append(text), by the caller, on the list it put in arguments["ids"]
CallerAppends(id, text) ==
    /\ objects' = [objects EXCEPT ![id] = Append(@, text)]
    /\ UNCHANGED <<caller_arguments, arguments_at_start>>

\* The tracer and a caller that goes on using the dict it passed.
ArgumentsNext ==
    \/ \E n \in ToolNames :
          /\ Cardinality(DOMAIN calls) <= MaxEnded
          /\ StartToolCall(n) /\ UNCHANGED <<debuggerVars, observeVars, sessionVars, visualizerVars, inspectorVars, nodeInspectorVars, renderVars, routeVars, securityVars, hostVars, eventVars, reportVars>>
    \/ \E k \in ArgumentKeys, x \in ArgumentTexts :
          CallerSetsKey(k, x) /\ UNCHANGED <<debuggerVars, observeVars, sessionVars, tracerVars, visualizerVars, inspectorVars, nodeInspectorVars, renderVars, routeVars, securityVars, hostVars, eventVars, reportVars>>
    \/ \E k \in ArgumentKeys :
          CallerDeletesKey(k) /\ UNCHANGED <<debuggerVars, observeVars, sessionVars, tracerVars, visualizerVars, inspectorVars, nodeInspectorVars, renderVars, routeVars, securityVars, hostVars, eventVars, reportVars>>
    \/ \E i \in DOMAIN objects, x \in ArgumentTexts :
          /\ Len(objects[i]) < MaxListLen
          /\ CallerAppends(i, x) /\ UNCHANGED <<debuggerVars, observeVars, sessionVars, tracerVars, visualizerVars, inspectorVars, nodeInspectorVars, renderVars, routeVars, securityVars, hostVars, eventVars, reportVars>>

ArgumentsSpec == Init /\ [][ArgumentsNext]_vars

\* ============================================================= inspector

\* The step numbers snapshots are taken and compared at.
SnapshotSteps == {1, 2, 3}

\* The nodes snapshots are taken at.
SnapshotNodes == {"A", "B"}

\* A dict entry, and the contexts snapshots are taken of: dicts of up to two
\* entries, in insertion order, with str values shorter than the preview limit.
Item(key, value) == [key |-> key, value |-> value]
SnapshotContexts ==
    {<<>>, <<Item("a", "1")>>, <<Item("a", "2"), Item("b", "1")>>,
     <<Item("b", "1"), Item("a", "1")>>, <<Item("b", "2"), Item("c", "1")>>}

\* list(context.keys())
ContextKeys(context) == [i \in 1..Len(context) |-> context[i].key]

\* _preview_value(value) of a str no longer than max_length: f'"{value}"'
PreviewValue(value) == "\"" \o value \o "\""

\* {k: self._preview_value(v) for k, v in context.items()}
ContextPreview(context) ==
    [i \in 1..Len(context) |-> Item(context[i].key, PreviewValue(context[i].value))]

\* The snapshot dict take_snapshot builds.
NewSnapshot(step, node_id, context, t) ==
    [step |-> step, node_id |-> node_id, timestamp |-> t,
     context_keys |-> ContextKeys(context), context_preview |-> ContextPreview(context)]

\* Mutant of Stored: a snapshot of a step already stored takes its place.
StoredReplacingStep(snaps, snapshot) ==
    IF \E i \in 1..Len(snaps) : snaps[i].step = snapshot.step
    THEN [i \in 1..Len(snaps) |-> IF snaps[i].step = snapshot.step THEN snapshot ELSE snaps[i]]
    ELSE Append(snaps, snapshot)

\* self.snapshots.append(snapshot)
Stored(snaps, snapshot) == Append(snaps, snapshot)

\* take_snapshot(step, node_id, context)
TakeSnapshot(step, node_id, context) ==
    /\ snapshots' = Stored(snapshots, NewSnapshot(step, node_id, context, now))
    /\ UNCHANGED comparison

\* get_snapshot(step): the position of the first snapshot with that step, or
\* NoNumber for None
GetSnapshot(snaps, step) ==
    IF \E i \in 1..Len(snaps) : snaps[i].step = step
    THEN CHOOSE i \in 1..Len(snaps) :
            /\ snaps[i].step = step
            /\ \A j \in 1..(i - 1) : snaps[j].step # step
    ELSE NoNumber

\* set(list)
SetOf(list) == {list[i] : i \in 1..Len(list)}

\* Mutant of CompareResult: removed_keys is computed as added_keys is.
CompareResultRemovedAsAdded(snaps, step1, step2) ==
    LET snap1 == GetSnapshot(snaps, step1)
        snap2 == GetSnapshot(snaps, step2)
        keys1 == SetOf(snaps[snap1].context_keys)
        keys2 == SetOf(snaps[snap2].context_keys)
    IN IF snap1 = NoNumber \/ snap2 = NoNumber
       THEN [step1 |-> step1, step2 |-> step2, found |-> FALSE,
             error |-> "One or both snapshots not found"]
       ELSE [step1 |-> step1, step2 |-> step2, found |-> TRUE,
             added_keys |-> keys2 \ keys1,
             removed_keys |-> keys2 \ keys1,
             common_keys |-> keys1 \cap keys2,
             step_diff |-> step2 - step1]

\* What compare_snapshots(step1, step2) returns on the snapshots snaps, with
\* the arguments it was given; a list made of a set has the set's elements in no
\* particular order and is kept as the set.
CompareResult(snaps, step1, step2) ==
    LET snap1 == GetSnapshot(snaps, step1)
        snap2 == GetSnapshot(snaps, step2)
        keys1 == SetOf(snaps[snap1].context_keys)
        keys2 == SetOf(snaps[snap2].context_keys)
    IN IF snap1 = NoNumber \/ snap2 = NoNumber
       THEN [step1 |-> step1, step2 |-> step2, found |-> FALSE,
             error |-> "One or both snapshots not found"]
       ELSE [step1 |-> step1, step2 |-> step2, found |-> TRUE,
             added_keys |-> keys2 \ keys1,
             removed_keys |-> keys1 \ keys2,
             common_keys |-> keys1 \cap keys2,
             step_diff |-> step2 - step1]

\* compare_snapshots(step1, step2)
CompareSnapshots(step1, step2) ==
    /\ comparison' = CompareResult(snapshots, step1, step2)
    /\ UNCHANGED snapshots

InspectorNext ==
    \/ \E step \in SnapshotSteps, node_id \in SnapshotNodes, context \in SnapshotContexts :
          /\ Len(snapshots) < MaxSnapshots
          /\ TakeSnapshot(step, node_id, context)
          /\ UNCHANGED <<debuggerVars, observeVars, sessionVars, tracerVars, callerVars,
                         visualizerVars, nodeInspectorVars, renderVars, routeVars, securityVars, hostVars, eventVars, reportVars>>
    \/ \E step1, step2 \in SnapshotSteps :
          /\ CompareSnapshots(step1, step2)
          /\ UNCHANGED <<debuggerVars, observeVars, sessionVars, tracerVars, callerVars,
                         visualizerVars, nodeInspectorVars, renderVars, routeVars, securityVars, hostVars, eventVars, reportVars>>

InspectorSpec == Init /\ [][InspectorNext]_vars

\* ========================================================= node inspector

MaxHistory == 1

\* The nodes of the inspected graph, with the attributes inspect_* read.
InspectedNodes ==
    <<[id |-> "A", name |-> "alpha", input_keys |-> <<"x">>, output_keys |-> <<"y">>],
      [id |-> "B", name |-> "beta", input_keys |-> <<"y", "z">>, output_keys |-> <<"out", "y">>],
      [id |-> "C", name |-> "gamma", input_keys |-> <<>>, output_keys |-> <<>>]>>

\* self.node_map = {node.id: node for node in graph.nodes}
NodeMap(nodes) ==
    [id \in {nodes[i].id : i \in 1..Len(nodes)} |->
        nodes[CHOOSE i \in 1..Len(nodes) :
                /\ nodes[i].id = id
                /\ \A j \in (i + 1)..Len(nodes) : nodes[j].id # id]]

\* The node ids inspect_* are called with: those of the graph and one it lacks.
InspectIds == {"A", "B", "C", "Z"}

\* Context values: a str (its characters), a list (its items), an int.
Text(chars) == [type |-> "str", v |-> chars]
Items(items) == [type |-> "list", v |-> items]
Number(n) == [type |-> "int", v |-> <<n>>]

\* A str of n characters.
Chars(n) == [i \in 1..n |-> "x"]

\* The contexts inspect_node_inputs and inspect_node_outputs are called with.
InspectContexts ==
    {EmptyDict,
     "x" :> Text(<<"h", "i">>),
     "x" :> Text(Chars(101)) @@ "y" :> Items(<<"a", "b">>) @@ "extra" :> Number(7),
     "y" :> Items(<<"a", "b", "c", "d", "e", "f">>) @@ "z" :> Number(3) @@ "out" :> Text(<<>>)}

\* _preview_text(text, max_length)
PreviewText(text, max_length) ==
    IF Len(text) <= max_length THEN text
    ELSE SubSeq(text, 1, max_length) \o <<".", ".", ".">>

\* repr of a list of one-character strs
RECURSIVE ReprItems(_)
ReprItems(items) ==
    IF items = <<>> THEN ""
    ELSE "'" \o Head(items) \o "'" \o
         (IF Len(items) > 1 THEN ", " ELSE "") \o ReprItems(Tail(items))

\* NodeInspector._preview_value(value, max_length=100)
NodePreviewValue(value, max_length) ==
    IF value.type = "str" THEN PreviewText(value.v, max_length)
    ELSE IF value.type = "list" /\ Len(value.v) > 5
         THEN "[" \o ToString(Len(value.v)) \o " items] [" \o
              ReprItems(SubSeq(value.v, 1, 2)) \o "]..."
         ELSE value.v

\* _get_size(value)
GetSize(value) ==
    IF value.type = "str" THEN ToString(Len(value.v)) \o " chars"
    ELSE IF value.type = "list" THEN ToString(Len(value.v)) \o " items"
    ELSE "N/A"

\* The entry of a key the context holds.
PresentEntry(value) ==
    [value |-> NodePreviewValue(value, 100), type |-> value.type, size |-> GetSize(value)]

\* The entries of a missing input key and of an output key not produced.
MissingInput == [status |-> "missing", required |-> TRUE]
NotProduced == [status |-> "not_produced"]

\* Mutant of InspectKeys: the loop runs over the context's keys.
InspectKeysOfContext(keys, context, absent) ==
    [key \in DOMAIN context |-> PresentEntry(context[key])]

\* The loop of inspect_node_inputs and inspect_node_outputs over the declared
\* keys: one entry per key, absent when the context does not hold it.
InspectKeys(keys, context, absent) ==
    [key \in SetOf(keys) |->
        IF key \in DOMAIN context THEN PresentEntry(context[key]) ELSE absent]

\* Mutant of NodeNotFound: an ordinary result for the node asked about.
NodeNotFoundAsEmpty(node_id) == [node_id |-> node_id, inputs |-> EmptyDict]

\* {"error": f"Node '{node_id}' not found"}
NodeNotFound(node_id) == [error |-> "Node '" \o node_id \o "' not found"]

\* What inspect_node(node_id) returns.
InspectNodeResult(node_map, node_id) ==
    IF node_id \notin DOMAIN node_map THEN NodeNotFound(node_id)
    ELSE LET node == node_map[node_id]
         IN [id |-> node.id, name |-> node.name,
             input_keys |-> node.input_keys, output_keys |-> node.output_keys]

\* What inspect_node_inputs(node_id, context) returns.
InspectNodeInputsResult(node_map, node_id, context) ==
    IF node_id \notin DOMAIN node_map THEN NodeNotFound(node_id)
    ELSE [node_id |-> node_id,
          inputs |-> InspectKeys(node_map[node_id].input_keys, context, MissingInput)]

\* What inspect_node_outputs(node_id, context) returns.
InspectNodeOutputsResult(node_map, node_id, context) ==
    IF node_id \notin DOMAIN node_map THEN NodeNotFound(node_id)
    ELSE [node_id |-> node_id,
          outputs |-> InspectKeys(node_map[node_id].output_keys, context, NotProduced)]

\* inspect_node(node_id)
InspectNode(node_id) ==
    /\ inspection' = [op |-> "inspect_node", node_id |-> node_id,
                      result |-> InspectNodeResult(NodeMap(InspectedNodes), node_id)]
    /\ UNCHANGED execution_history

\* inspect_node_inputs(node_id, context)
InspectNodeInputs(node_id, context) ==
    /\ inspection' = [op |-> "inspect_node_inputs", node_id |-> node_id, context |-> context,
                      result |-> InspectNodeInputsResult(NodeMap(InspectedNodes), node_id, context)]
    /\ UNCHANGED execution_history

\* inspect_node_outputs(node_id, context)
InspectNodeOutputs(node_id, context) ==
    /\ inspection' = [op |-> "inspect_node_outputs", node_id |-> node_id, context |-> context,
                      result |-> InspectNodeOutputsResult(NodeMap(InspectedNodes), node_id, context)]
    /\ UNCHANGED execution_history

\* NodeExecutionInfo(node_id, node_name, inputs, outputs, status)
NodeExecutionInfo(node_id, status) ==
    [node_id |-> node_id, node_name |-> node_id, inputs |-> EmptyDict,
     outputs |-> EmptyDict, status |-> status, error |-> None]

\* record_execution(info)
RecordExecution(info) ==
    /\ execution_history' = Append(execution_history, info)
    /\ UNCHANGED inspection

NodeInspectorNext ==
    \/ \E node_id \in InspectIds :
          /\ InspectNode(node_id)
          /\ UNCHANGED <<debuggerVars, observeVars, sessionVars, tracerVars, callerVars,
                         visualizerVars, inspectorVars, renderVars, routeVars, securityVars, hostVars, eventVars, reportVars>>
    \/ \E node_id \in InspectIds, context \in InspectContexts :
          /\ InspectNodeInputs(node_id, context)
          /\ UNCHANGED <<debuggerVars, observeVars, sessionVars, tracerVars, callerVars,
                         visualizerVars, inspectorVars, renderVars, routeVars, securityVars, hostVars, eventVars, reportVars>>
    \/ \E node_id \in InspectIds, context \in InspectContexts :
          /\ InspectNodeOutputs(node_id, context)
          /\ UNCHANGED <<debuggerVars, observeVars, sessionVars, tracerVars, callerVars,
                         visualizerVars, inspectorVars, renderVars, routeVars, securityVars, hostVars, eventVars, reportVars>>
    \/ \E status \in {"success", "failed"} :
          /\ Len(execution_history) < MaxHistory
          /\ RecordExecution(NodeExecutionInfo("A", status))
          /\ UNCHANGED <<debuggerVars, observeVars, sessionVars, tracerVars, callerVars,
                         visualizerVars, inspectorVars, renderVars, routeVars, securityVars, hostVars, eventVars, reportVars>>
    \/ \E step \in {1, 2} :
          /\ Len(snapshots) < MaxSnapshots
          /\ TakeSnapshot(step, "A", <<Item("a", "1")>>)
          /\ UNCHANGED <<debuggerVars, observeVars, sessionVars, tracerVars, callerVars,
                         visualizerVars, nodeInspectorVars, renderVars, routeVars, securityVars, hostVars, eventVars, reportVars>>
    \/ \E step1, step2 \in SnapshotSteps :
          /\ CompareSnapshots(step1, step2)
          /\ UNCHANGED <<debuggerVars, observeVars, sessionVars, tracerVars, callerVars,
                         visualizerVars, nodeInspectorVars, renderVars, routeVars, securityVars, hostVars, eventVars, reportVars>>

NodeInspectorSpec == Init /\ [][NodeInspectorNext]_vars

\* ============================================================ visualizer

\* The nodes of the graphs, in the order of graph.nodes.
NodeSeq == <<"A", "B", "C">>

\* Every edge there can be between them, self-loops included.
AllEdges ==
    [i \in 1..(Len(NodeSeq) * Len(NodeSeq)) |->
        Edge(NodeSeq[((i - 1) \div Len(NodeSeq)) + 1], NodeSeq[((i - 1) % Len(NodeSeq)) + 1])]

\* The edges of AllEdges at the positions in chosen, from position i on.
RECURSIVE SelectFrom(_, _)
SelectFrom(i, chosen) ==
    IF i > Len(AllEdges) THEN <<>>
    ELSE (IF i \in chosen THEN <<AllEdges[i]>> ELSE <<>>) \o SelectFrom(i + 1, chosen)

\* The graphs a GraphVisualizer is built on: entry point A and up to MaxEdges
\* edges, with cycles, self-loops and no terminal node among them.
Graphs ==
    {[entry_point |-> "A", nodes |-> NodeSeq, edges |-> SelectFrom(1, chosen)] :
        chosen \in {c \in SUBSET (1..Len(AllEdges)) : Cardinality(c) <= MaxEdges}}

\* The start_node arguments: a node id, or None for the default.
StartArguments == NodeIds \cup {None}

\* GraphVisualizer(g), for any of the graphs
PathsInit ==
    /\ DebuggerInit /\ ObserveInit /\ SessionInitWith(FALSE) /\ TracerInit /\ CallerInit
    /\ \E g \in Graphs : VisualizerInitWith(g)
    /\ InspectorInit /\ NodeInspectorInit /\ RenderInit /\ RouteInit /\ SecurityInit /\ HostInit /\ EventsInit /\ ReportInit

\* start_node or self.graph.entry_point
StartOf(g, s) == IF s = None \/ s = "" THEN g.entry_point ELSE s

\* Mutant of OutgoingEdges: only the first outgoing edge is kept.
RECURSIVE OutgoingEdgesFirstOnly(_, _)
OutgoingEdgesFirstOnly(edges, current) ==
    IF edges = <<>> THEN <<>>
    ELSE IF Head(edges).source = current THEN <<Head(edges)>>
    ELSE OutgoingEdgesFirstOnly(Tail(edges), current)

\* [e for e in self.graph.edges if e.source == current]
RECURSIVE OutgoingEdges(_, _)
OutgoingEdges(edges, current) ==
    IF edges = <<>> THEN <<>>
    ELSE (IF Head(edges).source = current THEN <<Head(edges)>> ELSE <<>>)
         \o OutgoingEdges(Tail(edges), current)

\* Mutant of DepthExceeded: one level more is let through.
DepthExceededOffByOne(depth, limit) == depth > limit + 1

\* depth > max_depth
DepthExceeded(depth, limit) == depth > limit

\* Mutant of Pop: the activation that returns stays on the stack.
PopKeeps(stack) == stack

\* The stack when its innermost activation returns.
Pop(stack) == SubSeq(stack, 1, Len(stack) - 1)

\* dfs(current, path, depth), called and not yet begun
Activation(current, path, depth) ==
    [current |-> current, path |-> path, depth |-> depth, entered |-> FALSE,
     outgoing |-> <<>>, next |-> 1]

\* find_execution_paths(start_node, max_depth), up to the call dfs(start, [], 0)
FindExecutionPaths(s, d) ==
    /\ vis_pc = "idle"
    /\ vis_pc' = "dfs"
    /\ start_node' = s
    /\ max_depth' = d
    /\ paths' = <<>>
    /\ dfs_stack' = <<Activation(StartOf(graph, s), <<>>, 0)>>
    /\ UNCHANGED graph

\* dfs from its first line to the for loop, or to its return when the depth is
\* exceeded or the node is terminal
DfsEnter ==
    /\ vis_pc = "dfs"
    /\ dfs_stack # <<>>
    /\ LET n == Len(dfs_stack)
           top == dfs_stack[n]
           path == Append(top.path, top.current)
           outgoing == OutgoingEdges(graph.edges, top.current)
       IN /\ ~top.entered
          /\ IF DepthExceeded(top.depth, max_depth)
             THEN dfs_stack' = Pop(dfs_stack) /\ UNCHANGED paths
             ELSE IF outgoing = <<>>
             THEN dfs_stack' = Pop(dfs_stack) /\ paths' = Append(paths, path)
             ELSE /\ dfs_stack' = [dfs_stack EXCEPT ![n] =
                                      [@ EXCEPT !.entered = TRUE, !.path = path,
                                                !.outgoing = outgoing]]
                  /\ UNCHANGED paths
    /\ UNCHANGED <<graph, vis_pc, start_node, max_depth>>

\* one turn of `for edge in outgoing: dfs(edge.target, path, depth + 1)`, or
\* the return of dfs after the last one
DfsLoop ==
    /\ vis_pc = "dfs"
    /\ dfs_stack # <<>>
    /\ LET n == Len(dfs_stack)
           top == dfs_stack[n]
       IN /\ top.entered
          /\ IF top.next <= Len(top.outgoing)
             THEN dfs_stack' =
                     Append([dfs_stack EXCEPT ![n].next = @ + 1],
                            Activation(top.outgoing[top.next].target, top.path, top.depth + 1))
             ELSE dfs_stack' = Pop(dfs_stack)
    /\ UNCHANGED <<graph, vis_pc, start_node, max_depth, paths>>

\* return paths
DfsReturn ==
    /\ vis_pc = "dfs"
    /\ dfs_stack = <<>>
    /\ vis_pc' = "idle"
    /\ UNCHANGED <<graph, start_node, max_depth, dfs_stack, paths>>

\* The steps of a call of find_execution_paths in progress.
DfsStep ==
    (DfsEnter \/ DfsLoop \/ DfsReturn)
    /\ UNCHANGED <<debuggerVars, observeVars, sessionVars, tracerVars, callerVars, inspectorVars, nodeInspectorVars, renderVars, routeVars, securityVars, hostVars, eventVars, reportVars>>

PathsNext ==
    \/ \E s \in StartArguments, d \in 0..MaxDepth :
          /\ FindExecutionPaths(s, d)
          /\ UNCHANGED <<debuggerVars, observeVars, sessionVars, tracerVars, callerVars, inspectorVars, nodeInspectorVars, renderVars, routeVars, securityVars, hostVars, eventVars, reportVars>>
    \/ DfsEnter /\ UNCHANGED <<debuggerVars, observeVars, sessionVars, tracerVars, callerVars, inspectorVars, nodeInspectorVars, renderVars, routeVars, securityVars, hostVars, eventVars, reportVars>>
    \/ DfsLoop /\ UNCHANGED <<debuggerVars, observeVars, sessionVars, tracerVars, callerVars, inspectorVars, nodeInspectorVars, renderVars, routeVars, securityVars, hostVars, eventVars, reportVars>>
    \/ DfsReturn /\ UNCHANGED <<debuggerVars, observeVars, sessionVars, tracerVars, callerVars, inspectorVars, nodeInspectorVars, renderVars, routeVars, securityVars, hostVars, eventVars, reportVars>>

PathsSpec == PathsInit /\ [][PathsNext]_vars

\* A call in progress is not suspended for ever: nothing in it waits.
PathsFairSpec == PathsSpec /\ WF_vars(DfsStep)

\* ======================================================= graph queries

\* EdgeCondition members and their values, as spelt in the design's scenario.
EdgeCondition ==
    [ON_SUCCESS |-> [value |-> <<"o", "n", "_", "s", "u", "c", "c", "e", "s", "s">>],
     CONDITIONAL |-> [value |-> <<"c", "o", "n", "d", "i", "t", "i", "o", "n", "a", "l">>]]

\* A condition given as a plain str, which has no attribute `value`.
RawCondition(text) == [str |-> text]

\* EdgeSpec(id=..., source=..., target=..., condition=..., condition_expr=...)
RoutedEdge(id, source, target, condition, condition_expr) ==
    [id |-> id, source |-> source, target |-> target, condition |-> condition,
     condition_expr |-> condition_expr]

\* The graphs queried and rendered: A -> B on success and B -> C conditional on
\* "x>0"; the same with a second conditional edge back to A; one whose
\* condition is the plain str "CONDITIONAL"; one without edges.
RoutedGraphs ==
    {[entry_point |-> "A", nodes |-> <<"A", "B", "C">>,
      edges |-> <<RoutedEdge("e1", "A", "B", EdgeCondition.ON_SUCCESS, <<>>),
                  RoutedEdge("e2", "B", "C", EdgeCondition.CONDITIONAL, <<"x", ">", "0">>)>>],
     [entry_point |-> "A", nodes |-> <<"A", "B", "C">>,
      edges |-> <<RoutedEdge("e1", "A", "B", EdgeCondition.ON_SUCCESS, <<>>),
                  RoutedEdge("e2", "B", "C", EdgeCondition.CONDITIONAL, <<"x", ">", "0">>),
                  RoutedEdge("e3", "B", "A", EdgeCondition.CONDITIONAL, <<"x">>)>>],
     [entry_point |-> "A", nodes |-> <<"A", "B", "C">>,
      edges |-> <<RoutedEdge("e1", "A", "B",
                             RawCondition(<<"C", "O", "N", "D", "I", "T", "I", "O", "N", "A", "L">>),
                             <<>>)>>],
     [entry_point |-> "A", nodes |-> <<"A", "B", "C">>, edges |-> <<>>]}

\* The node ids the queries are called with: those of the graph and one it lacks.
QueryIds == NodeIds \cup {"Z"}

\* GraphVisualizer(g), for any of the routed graphs
RenderSpecInit ==
    /\ DebuggerInit /\ ObserveInit /\ SessionInitWith(FALSE) /\ TracerInit /\ CallerInit
    /\ \E g \in RoutedGraphs : VisualizerInitWith(g)
    /\ InspectorInit /\ NodeInspectorInit /\ RenderInit /\ RouteInit /\ SecurityInit /\ HostInit /\ EventsInit /\ ReportInit

\* edge.condition.value if hasattr(edge.condition, 'value') else str(edge.condition)
ConditionText(condition) ==
    IF "value" \in DOMAIN condition THEN condition.value ELSE condition.str

\* needle in text, of two strs
Contains(needle, text) ==
    \E i \in 0..(Len(text) - Len(needle)) : SubSeq(text, i + 1, i + Len(needle)) = needle

\* The str of the given characters.
RECURSIVE Str(_)
Str(chars) == IF chars = <<>> THEN "" ELSE Head(chars) \o Str(Tail(chars))

\* "CONDITIONAL" in condition
IsConditionalText(condition) ==
    Contains(<<"C", "O", "N", "D", "I", "T", "I", "O", "N", "A", "L">>, condition)

\* The attrs list render_dot builds for an edge.
DotEdgeAttrs(edge) ==
    LET condition == ConditionText(edge.condition)
        label == IF edge.condition_expr # <<>>
                 THEN condition \o <<"\\", "n">> \o edge.condition_expr
                 ELSE condition
    IN <<"label=\"" \o Str(label) \o "\"">>
       \o (IF IsConditionalText(condition) THEN <<"style=\"dashed\"">> ELSE <<>>)

\* The edge lines of render_dot(): per edge its source, target and attrs.
RenderDotEdges(g) ==
    [i \in 1..Len(g.edges) |->
        [source |-> g.edges[i].source, target |-> g.edges[i].target,
         attrs |-> DotEdgeAttrs(g.edges[i])]]

\* render_dot()
RenderDot ==
    /\ dot' = RenderDotEdges(graph)
    /\ UNCHANGED connectivity

\* The `incoming` list of get_node_connectivity.
RECURSIVE IncomingEdges(_, _)
IncomingEdges(edges, node_id) ==
    IF edges = <<>> THEN <<>>
    ELSE (IF Head(edges).target = node_id
          THEN <<[edge_id |-> Head(edges).id, source |-> Head(edges).source,
                  condition |-> Str(ConditionText(Head(edges).condition))]>>
          ELSE <<>>) \o IncomingEdges(Tail(edges), node_id)

\* The `outgoing` list of get_node_connectivity.
RECURSIVE OutgoingEdgeInfos(_, _)
OutgoingEdgeInfos(edges, node_id) ==
    IF edges = <<>> THEN <<>>
    ELSE (IF Head(edges).source = node_id
          THEN <<[edge_id |-> Head(edges).id, target |-> Head(edges).target,
                  condition |-> Str(ConditionText(Head(edges).condition))]>>
          ELSE <<>>) \o OutgoingEdgeInfos(Tail(edges), node_id)

\* What get_node_connectivity(node_id) returns.
NodeConnectivity(g, node_id) ==
    LET outgoing == OutgoingEdgeInfos(g.edges, node_id)
    IN [node_id |-> node_id,
        incoming_edges |-> IncomingEdges(g.edges, node_id),
        outgoing_edges |-> outgoing,
        is_entry_point |-> node_id = g.entry_point,
        is_terminal |-> Len(outgoing) = 0]

\* get_node_connectivity(node_id)
GetNodeConnectivity(node_id) ==
    /\ connectivity' = [node_id |-> node_id, result |-> NodeConnectivity(graph, node_id)]
    /\ UNCHANGED dot

RenderNext ==
    \/ \E node_id \in QueryIds :
          /\ GetNodeConnectivity(node_id)
          /\ UNCHANGED <<debuggerVars, observeVars, sessionVars, tracerVars, callerVars,
                         visualizerVars, inspectorVars, nodeInspectorVars, routeVars, securityVars, hostVars, eventVars, reportVars>>
    \/ /\ RenderDot
       /\ UNCHANGED <<debuggerVars, observeVars, sessionVars, tracerVars, callerVars,
                      visualizerVars, inspectorVars, nodeInspectorVars, routeVars, securityVars, hostVars, eventVars, reportVars>>
    \/ \E s \in {None, "B", "Z"}, d \in {1, MaxDepth} :
          /\ FindExecutionPaths(s, d)
          /\ UNCHANGED <<debuggerVars, observeVars, sessionVars, tracerVars, callerVars,
                         inspectorVars, nodeInspectorVars, renderVars, routeVars, securityVars, hostVars, eventVars, reportVars>>
    \/ /\ DfsEnter
       /\ UNCHANGED <<debuggerVars, observeVars, sessionVars, tracerVars, callerVars,
                      inspectorVars, nodeInspectorVars, renderVars, routeVars, securityVars, hostVars, eventVars, reportVars>>
    \/ /\ DfsLoop
       /\ UNCHANGED <<debuggerVars, observeVars, sessionVars, tracerVars, callerVars,
                      inspectorVars, nodeInspectorVars, renderVars, routeVars, securityVars, hostVars, eventVars, reportVars>>
    \/ /\ DfsReturn
       /\ UNCHANGED <<debuggerVars, observeVars, sessionVars, tracerVars, callerVars,
                      inspectorVars, nodeInspectorVars, renderVars, routeVars, securityVars, hostVars, eventVars, reportVars>>

RenderSpec == RenderSpecInit /\ [][RenderNext]_vars

\* ========================================================= edge routes

MaxTraversals == 4

\* The edge ids traversals are recorded with.
EdgeIds == {"e1", "e2", "e3"}

\* record_traversal(edge_id, context, reason, skipped_edges)
RecordTraversal(edge_id, context, reason, skipped_edges) ==
    /\ traversal_history' =
          Append(traversal_history,
                 [edge_id |-> edge_id, reason |-> reason,
                  skipped_edges |-> IF skipped_edges = None THEN <<>> ELSE skipped_edges,
                  context_snapshot |-> ContextKeys(context)])
    /\ UNCHANGED edge_usage_stats

\* edge_counts after the loop over history: the ids in the order they were
\* first met, each with its count.
RECURSIVE EdgeCounts(_, _)
EdgeCounts(history, edge_counts) ==
    IF history = <<>> THEN edge_counts
    ELSE LET edge_id == Head(history).edge_id
             known == \E i \in 1..Len(edge_counts) : edge_counts[i].edge_id = edge_id
             started == IF known THEN edge_counts
                        ELSE Append(edge_counts, [edge_id |-> edge_id, count |-> 0])
         IN EdgeCounts(Tail(history),
                       [i \in 1..Len(started) |->
                           IF started[i].edge_id = edge_id
                           THEN [started[i] EXCEPT !.count = @ + 1]
                           ELSE started[i]])

\* Mutant of MaxItem: a later item of equal count replaces the best one.
RECURSIVE MaxItemLastWins(_, _)
MaxItemLastWins(items, best) ==
    IF items = <<>> THEN best
    ELSE MaxItemLastWins(Tail(items), IF Head(items).count >= best.count THEN Head(items) ELSE best)

\* max(items, key=lambda x: x[1]) from the item best on: a later item replaces
\* it only when its count is greater.
RECURSIVE MaxItem(_, _)
MaxItem(items, best) ==
    IF items = <<>> THEN best
    ELSE MaxItem(Tail(items), IF Head(items).count > best.count THEN Head(items) ELSE best)

\* What get_edge_usage_stats() returns; most_used_edge is the tuple
\* (edge_id, count), or the empty tuple for None.
EdgeUsageStats(history) ==
    LET edge_counts == EdgeCounts(history, <<>>)
        most == MaxItem(Tail(edge_counts), Head(edge_counts))
    IN [total_traversals |-> Len(history),
        unique_edges_used |-> Len(edge_counts),
        edge_counts |-> edge_counts,
        most_used_edge |-> IF edge_counts # <<>> THEN <<most.edge_id, most.count>> ELSE <<>>]

\* get_edge_usage_stats()
GetEdgeUsageStats ==
    /\ edge_usage_stats' = EdgeUsageStats(traversal_history)
    /\ UNCHANGED traversal_history

RouteNext ==
    \/ \E edge_id \in EdgeIds :
          /\ Len(traversal_history) < MaxTraversals
          /\ RecordTraversal(edge_id, <<Item("a", "1")>>, "matched", None)
          /\ UNCHANGED <<debuggerVars, observeVars, sessionVars, tracerVars, callerVars,
                         visualizerVars, inspectorVars, nodeInspectorVars, renderVars, securityVars, hostVars, eventVars, reportVars>>
    \/ /\ GetEdgeUsageStats
       /\ UNCHANGED <<debuggerVars, observeVars, sessionVars, tracerVars, callerVars,
                      visualizerVars, inspectorVars, nodeInspectorVars, renderVars, securityVars, hostVars, eventVars, reportVars>>

RouteSpec == Init /\ [][RouteNext]_vars

\* ======================================================== path sandbox

MaxLinks == 2

\* A str that is a path: whether it starts with the separator, and its
\* components; and None.
PathStr(abs, parts) == [none |-> FALSE, abs |-> abs, parts |-> parts]
Rel(parts) == PathStr(FALSE, parts)
Abs(parts) == PathStr(TRUE, parts)
NonePath == [none |-> TRUE, abs |-> FALSE, parts |-> <<>>]

\* os.path.expanduser("~/.hive/workdir/workspaces")
WORKSPACES_DIR == Abs(<<"home", ".hive", "workdir", "workspaces">>)

\* The path as text.
RECURSIVE JoinParts(_)
JoinParts(parts) ==
    IF parts = <<>> THEN ""
    ELSE Head(parts) \o (IF Len(parts) > 1 THEN "/" ELSE "") \o JoinParts(Tail(parts))
PathText(path) == (IF path.abs THEN "/" ELSE "") \o JoinParts(path.parts)

\* os.path.join(a, b)
Join(a, b) == IF b.abs THEN b ELSE PathStr(a.abs, a.parts \o b.parts)

\* path.lstrip(os.sep)
RECURSIVE DropEmpty(_)
DropEmpty(parts) ==
    IF parts # <<>> /\ Head(parts) = "" THEN DropEmpty(Tail(parts)) ELSE parts
LStripSep(path) == Rel(DropEmpty(path.parts))

\* The directory a resolved path is in; the root is its own parent.
Parent(cur) == IF cur = <<>> THEN <<>> ELSE SubSeq(cur, 1, Len(cur) - 1)

\* posixpath._joinrealpath(path, rest): the components of rest resolved one by
\* one from the resolved directory cur, following the symlinks of links (which
\* hold no loop).
RECURSIVE JoinRealpath(_, _, _)
JoinRealpath(links, cur, rest) ==
    IF rest = <<>> THEN cur
    ELSE LET name == Head(rest)
             newpath == Append(cur, name)
         IN IF name = "" \/ name = "." THEN JoinRealpath(links, cur, Tail(rest))
            ELSE IF name = ".." THEN JoinRealpath(links, Parent(cur), Tail(rest))
            ELSE IF newpath \in DOMAIN links
            THEN JoinRealpath(links,
                              JoinRealpath(links,
                                           IF links[newpath].abs THEN <<>> ELSE cur,
                                           links[newpath].parts),
                              Tail(rest))
            ELSE JoinRealpath(links, newpath, Tail(rest))

\* Mutant of Realpath: os.path.normpath, which follows no symlink.
RealpathNormOnly(links, path) == JoinRealpath(EmptyDict, <<>>, path.parts)

\* os.path.realpath(path) of an absolute path: its components from the root.
Realpath(links, path) == JoinRealpath(links, <<>>, path.parts)

\* os.path.commonpath([a, b]) of two resolved paths
RECURSIVE CommonPath(_, _)
CommonPath(a, b) ==
    IF a # <<>> /\ b # <<>> /\ Head(a) = Head(b)
    THEN <<Head(a)>> \o CommonPath(Tail(a), Tail(b))
    ELSE <<>>

\* The directories os.makedirs(name, exist_ok=True) leaves in existence: name
\* and each of its ancestors.
MadeDirs(links, name) ==
    {Realpath(links, Abs(SubSeq(name.parts, 1, k))) : k \in 0..Len(name.parts)}

\* Mutant of IdsMissing: only None counts as missing.
IdsMissingNoneOnly(workspace_id, agent_id, session_id) ==
    workspace_id.none \/ agent_id.none \/ session_id.none

\* not s, of a str or None
Not(s) == s.none \/ (~s.abs /\ s.parts = <<>>)

\* not workspace_id or not agent_id or not session_id
IdsMissing(workspace_id, agent_id, session_id) ==
    Not(workspace_id) \/ Not(agent_id) \/ Not(session_id)

\* os.path.join(WORKSPACES_DIR, workspace_id, agent_id, session_id)
SessionDir(workspace_id, agent_id, session_id) ==
    Join(Join(Join(WORKSPACES_DIR, workspace_id), agent_id), session_id)

\* The call as secure_path records it.
SecureCall(path, workspace_id, agent_id, session_id, outcome, value) ==
    [path |-> path, workspace_id |-> workspace_id, agent_id |-> agent_id,
     session_id |-> session_id, links |-> fs_links, outcome |-> outcome, value |-> value]

\* get_secure_path(path, workspace_id, agent_id, session_id): outcome "raised"
\* with the message of the ValueError, or "returned" with the path returned.
GetSecurePath(path, workspace_id, agent_id, session_id) ==
    IF IdsMissing(workspace_id, agent_id, session_id)
    THEN /\ secure_path' = SecureCall(path, workspace_id, agent_id, session_id, "raised",
                               "workspace_id, agent_id, and session_id are all required")
         /\ UNCHANGED <<fs_dirs, fs_links>>
    ELSE LET session_dir == SessionDir(workspace_id, agent_id, session_id)
             session_dir_real == Realpath(fs_links, session_dir)
             final_path == IF path.abs THEN Join(session_dir, LStripSep(path))
                           ELSE Join(session_dir, path)
             final_path_real == Realpath(fs_links, final_path)
             common_prefix == CommonPath(final_path_real, session_dir_real)
         IN /\ fs_dirs' = fs_dirs \cup MadeDirs(fs_links, session_dir)
            /\ secure_path' =
                  IF common_prefix # session_dir_real
                  THEN SecureCall(path, workspace_id, agent_id, session_id, "raised",
                           "Access denied: Path '" \o PathText(path)
                           \o "' is outside the session sandbox.")
                  ELSE SecureCall(path, workspace_id, agent_id, session_id, "returned",
                                  final_path_real)
            /\ UNCHANGED fs_links

\* The session directory the tests work in.
TestSessionDir ==
    SessionDir(Rel(<<"test-workspace">>), Rel(<<"test-agent">>), Rel(<<"test-session">>))

\* The symlinks made in it, and what each may point to: a file of the session
\* directory, a file outside it, a directory above it, a sibling session
\* directory, and for link1 the other symlink.
LinkNames == {"link1", "link2"}
LinkTargets(name) ==
    {Join(TestSessionDir, Rel(<<"target.txt">>)),
     Join(WORKSPACES_DIR, Rel(<<"outside_file.txt">>)),
     Join(WORKSPACES_DIR, Rel(<<"test-workspace">>)),
     Rel(<<"..", "other-session">>)}
    \cup (IF name = "link1" THEN {Join(TestSessionDir, Rel(<<"link2">>))} ELSE {})

\* session_dir.mkdir(parents=True, exist_ok=True); (session_dir / name).symlink_to(target)
Symlink(name, target) ==
    LET link == Append(TestSessionDir.parts, name)
    IN /\ link \notin DOMAIN fs_links
       /\ fs_dirs' = fs_dirs \cup MadeDirs(fs_links, TestSessionDir)
       /\ fs_links' = (link :> target) @@ fs_links
       /\ UNCHANGED secure_path

\* The path arguments.
PathArguments ==
    {Rel(<<>>), Rel(<<".">>), Rel(<<"file.txt">>), Rel(<<"subdir", "file.txt">>),
     Abs(<<"etc", "passwd">>), Abs(<<"", "etc">>),
     Rel(<<"..", "..", "..", "etc", "passwd">>), Rel(<<"valid", "..", "..", "..">>),
     Abs(<<"foo", "..", "..", "..", "etc", "passwd">>),
     Rel(<<"..", "test-session", "file.txt">>), Rel(<<"..", "test-session-2", "file.txt">>),
     Rel(<<"link1">>), Rel(<<"link1", "file.txt">>), Rel(<<"link2", "..">>)}

\* The id triples: the tests' ids, and each id in turn the empty str or None.
IdTriples ==
    LET w == Rel(<<"test-workspace">>)
        a == Rel(<<"test-agent">>)
        s == Rel(<<"test-session">>)
    IN {<<w, a, s>>, <<Rel(<<>>), a, s>>, <<w, Rel(<<>>), s>>, <<w, a, Rel(<<>>)>>,
        <<NonePath, a, s>>, <<w, a, NonePath>>}

SecurityNext ==
    \/ \E path \in PathArguments, ids \in IdTriples :
          /\ GetSecurePath(path, ids[1], ids[2], ids[3])
          /\ UNCHANGED <<debuggerVars, observeVars, sessionVars, tracerVars, callerVars,
                         visualizerVars, inspectorVars, nodeInspectorVars, renderVars,
                         routeVars, hostVars, eventVars, reportVars>>
    \/ \E name \in LinkNames :
          \E target \in LinkTargets(name) :
             /\ Cardinality(DOMAIN fs_links) < MaxLinks
             /\ Symlink(name, target)
             /\ UNCHANGED <<debuggerVars, observeVars, sessionVars, tracerVars, callerVars,
                            visualizerVars, inspectorVars, nodeInspectorVars, renderVars,
                            routeVars, hostVars, eventVars, reportVars>>

SecuritySpec == Init /\ [][SecurityNext]_vars

\* ===================================================== condition evaluation

\* The breakpoints and conditions of the evaluation runs.
EvalIdentities == {<<"NODE_ENTER", "A">>, <<"NODE_ENTER", "B">>}
EvalConditions == {CondX, CondEnv, CondSetEnv, CondStep}

EvalNext ==
    \/ \E p \in EvalIdentities, c \in EvalConditions :
          /\ SetBreakpoint(p[2], p[1], c)
          /\ UNCHANGED <<sessionVars, tracerVars, callerVars, visualizerVars, inspectorVars,
                         nodeInspectorVars, renderVars, routeVars, securityVars, hostVars, eventVars, reportVars>>
    \/ \E p \in EvalIdentities, x \in Contexts :
          /\ ShouldBreak(p[1], p[2], x)
          /\ UNCHANGED <<sessionVars, tracerVars, callerVars, visualizerVars, inspectorVars,
                         nodeInspectorVars, renderVars, routeVars, securityVars, eventVars, reportVars>>
    \/ /\ DisableStepMode
       /\ UNCHANGED <<sessionVars, tracerVars, callerVars, visualizerVars, inspectorVars,
                      nodeInspectorVars, renderVars, routeVars, securityVars, hostVars, eventVars, reportVars>>

EvalSpec == Init /\ [][EvalNext]_vars

\* ======================================================== traced events

MaxEvents == 3

\* The call made, with the trace that is current when it is made.
Issue(kind, value) ==
    issued' = Append(issued, [kind |-> kind, value |-> value, trace |-> current_trace])

EventsNext ==
    \/ \E i \in TraceIds :
          /\ Len(traces) <= MaxTraces
          /\ StartTrace(i)
          /\ UNCHANGED <<debuggerVars, observeVars, sessionVars, callerVars, visualizerVars,
                         inspectorVars, nodeInspectorVars, renderVars, routeVars,
                         securityVars, hostVars, eventVars, reportVars>>
    \/ /\ EndTrace
       /\ UNCHANGED <<debuggerVars, observeVars, sessionVars, callerVars, visualizerVars,
                      inspectorVars, nodeInspectorVars, renderVars, routeVars,
                      securityVars, hostVars, eventVars, reportVars>>
    \/ \E node_id \in {"A", "B"} :
          /\ Len(issued) < MaxEvents
          /\ RecordNodeEnter(node_id)
          /\ Issue("node", node_id)
          /\ UNCHANGED <<debuggerVars, observeVars, sessionVars, callerVars, visualizerVars,
                         inspectorVars, nodeInspectorVars, renderVars, routeVars,
                         securityVars, hostVars, reportVars>>
    \/ \E n \in ToolNames :
          /\ Len(issued) < MaxEvents
          /\ StartToolCall(n)
          /\ Issue("tool", Cardinality(DOMAIN calls))
          /\ UNCHANGED <<debuggerVars, observeVars, sessionVars, visualizerVars,
                         inspectorVars, nodeInspectorVars, renderVars, routeVars,
                         securityVars, hostVars, reportVars>>
    \/ \E edge_id \in {"e1"} :
          /\ Len(issued) < MaxEvents
          /\ RecordEdgeTraversal(edge_id, "A", "B", "on_success")
          /\ Issue("edge", edge_id)
          /\ UNCHANGED <<debuggerVars, observeVars, sessionVars, callerVars, visualizerVars,
                         inspectorVars, nodeInspectorVars, renderVars, routeVars,
                         securityVars, hostVars, reportVars>>

EventsSpec == Init /\ [][EventsNext]_vars

\* ====================================================== tool call stats

\* The tool names and outcomes of the calls counted.
StatsToolNames == {"search", "fetch"}

\* Another tracer operation was made since the last get_tool_call_stats call.
ForgetStats ==
    /\ call_stats' = [trace |-> NoNumber]
    /\ UNCHANGED routing_view

StatsNext ==
    \/ \E i \in TraceIds :
          /\ Len(traces) <= MaxTraces
          /\ StartTrace(i)
          /\ UNCHANGED <<debuggerVars, observeVars, sessionVars, callerVars, visualizerVars,
                         inspectorVars, nodeInspectorVars, renderVars, routeVars,
                         securityVars, hostVars, eventVars>>
          /\ ForgetStats
    \/ \E n \in StatsToolNames :
          /\ Cardinality(DOMAIN calls) <= MaxCalls
          /\ StartToolCall(n)
          /\ UNCHANGED <<debuggerVars, observeVars, sessionVars, visualizerVars,
                         inspectorVars, nodeInspectorVars, renderVars, routeVars,
                         securityVars, hostVars, eventVars>>
          /\ ForgetStats
    \/ \E r \in 1..MaxCalls, a \in OutcomeArguments :
          /\ active_tool_calls # <<>>
          /\ r = active_tool_calls[Len(active_tool_calls)]
          /\ EndToolCall(r, a.result, a.error)
          /\ UNCHANGED <<debuggerVars, observeVars, sessionVars, callerVars, visualizerVars,
                         inspectorVars, nodeInspectorVars, renderVars, routeVars,
                         securityVars, hostVars, eventVars>>
          /\ ForgetStats
    \/ /\ QueryToolCallStats
       /\ UNCHANGED <<debuggerVars, observeVars, sessionVars, callerVars, visualizerVars,
                      inspectorVars, nodeInspectorVars, renderVars, routeVars,
                      securityVars, hostVars, eventVars>>

StatsSpec == Init /\ [][StatsNext]_vars

\* ========================================================= call outcomes

\* The (result, error) pairs end_tool_call is given, the empty error text and
\* a result next to an error among them.
ErrorArguments ==
    {[result |-> "ok", error |-> None], [result |-> None, error |-> "timeout"],
     [result |-> None, error |-> ""], [result |-> "ok", error |-> "timeout"]}

\* The tracer used for calls that are each ended once.
ErrorNext ==
    \/ \E i \in TraceIds :
          /\ Len(traces) < MaxTraces
          /\ StartTrace(i)
          /\ UNCHANGED <<debuggerVars, observeVars, sessionVars, callerVars, visualizerVars,
                         inspectorVars, nodeInspectorVars, renderVars, routeVars,
                         securityVars, hostVars, eventVars, reportVars>>
    \/ \E n \in ToolNames :
          /\ Cardinality(DOMAIN calls) <= MaxCalls
          /\ StartToolCall(n)
          /\ UNCHANGED <<debuggerVars, observeVars, sessionVars, visualizerVars,
                         inspectorVars, nodeInspectorVars, renderVars, routeVars,
                         securityVars, hostVars, eventVars, reportVars>>
    \/ \E r \in 1..MaxCalls, a \in ErrorArguments :
          /\ r \in DOMAIN calls
          /\ calls[r].status = "pending"
          /\ EndToolCall(r, a.result, a.error)
          /\ UNCHANGED <<debuggerVars, observeVars, sessionVars, callerVars, visualizerVars,
                         inspectorVars, nodeInspectorVars, renderVars, routeVars,
                         securityVars, hostVars, eventVars, reportVars>>

ErrorSpec == Init /\ [][ErrorNext]_vars

\* ======================================================= live snapshots

\* The caller's dict as take_snapshot iterates over it: the keys it has, in the
\* order query, ids, limit.
LiveKeyOrder == <<"query", "ids", "limit">>
RECURSIVE LiveKeysFrom(_, _)
LiveKeysFrom(d, i) ==
    IF i > Len(LiveKeyOrder) THEN <<>>
    ELSE (IF LiveKeyOrder[i] \in DOMAIN d THEN <<LiveKeyOrder[i]>> ELSE <<>>)
         \o LiveKeysFrom(d, i + 1)
LiveKeys(d) == LiveKeysFrom(d, 1)

\* str(list) of a list of strs
RECURSIVE ReprList(_)
ReprList(list) ==
    IF list = <<>> THEN ""
    ELSE "'" \o Head(list) \o "'" \o (IF Len(list) > 1 THEN ", " ELSE "") \o ReprList(Tail(list))

\* _preview_value(value) of a dict value: a short str in double quotes, a list
\* of up to three items as str(list), a longer one as its item count.
LivePreviewValue(value, heap) ==
    IF value.kind = "str" THEN PreviewValue(value.v)
    ELSE IF Len(heap[value.v]) > 3 THEN "[" \o ToString(Len(heap[value.v])) \o " items]"
    ELSE "[" \o ReprList(heap[value.v]) \o "]"

\* The snapshot dict take_snapshot builds of the caller's dict.
NewLiveSnapshot(step, node_id, d, heap, t) ==
    [step |-> step, node_id |-> node_id, timestamp |-> t,
     context_keys |-> LiveKeys(d),
     context_preview |->
         [i \in 1..Len(LiveKeys(d)) |->
             Item(LiveKeys(d)[i], LivePreviewValue(d[LiveKeys(d)[i]], heap))]]

\* take_snapshot(step, node_id, context), context being the dict the caller
\* goes on using
TakeLiveSnapshot(step, node_id) ==
    /\ snapshots' = Stored(snapshots, NewLiveSnapshot(step, node_id, caller_arguments, objects, now))
    /\ UNCHANGED comparison

\* The inspector and a caller that goes on changing the context it passed.
LiveSnapshotNext ==
    \/ \E step \in {1, 2} :
          /\ Len(snapshots) < MaxSnapshots
          /\ TakeLiveSnapshot(step, "A")
          /\ UNCHANGED <<debuggerVars, observeVars, sessionVars, tracerVars, callerVars,
                         visualizerVars, nodeInspectorVars, renderVars, routeVars,
                         securityVars, hostVars, eventVars, reportVars>>
    \/ \E step2 \in {1, 2} :
          /\ CompareSnapshots(1, step2)
          /\ UNCHANGED <<debuggerVars, observeVars, sessionVars, tracerVars, callerVars,
                         visualizerVars, nodeInspectorVars, renderVars, routeVars,
                         securityVars, hostVars, eventVars, reportVars>>
    \/ /\ CallerSetsKey("limit", "b")
          /\ UNCHANGED <<debuggerVars, observeVars, sessionVars, tracerVars, visualizerVars,
                         inspectorVars, nodeInspectorVars, renderVars, routeVars,
                         securityVars, hostVars, eventVars, reportVars>>
    \/ /\ CallerDeletesKey("query")
          /\ UNCHANGED <<debuggerVars, observeVars, sessionVars, tracerVars, visualizerVars,
                         inspectorVars, nodeInspectorVars, renderVars, routeVars,
                         securityVars, hostVars, eventVars, reportVars>>
    \/ \E i \in DOMAIN objects :
          /\ Len(objects[i]) < MaxListLen
          /\ CallerAppends(i, "b")
          /\ UNCHANGED <<debuggerVars, observeVars, sessionVars, tracerVars, visualizerVars,
                         inspectorVars, nodeInspectorVars, renderVars, routeVars,
                         securityVars, hostVars, eventVars, reportVars>>

LiveSnapshotSpec == Init /\ [][LiveSnapshotNext]_vars

\* ==================================================== routing decisions

\* list[index]: the position read, counted from 1, or NoNumber when the index
\* is out of range (IndexError); a negative index counts from the end.
ListIndex(length, index) ==
    IF index >= 0 THEN (IF index < length THEN index + 1 ELSE NoNumber)
    ELSE (IF index >= -length THEN length + index + 1 ELSE NoNumber)

\* self.edge_map.get(edge_id): the edge of the graph with that id, or <<>> for
\* None
EdgeMapGet(g, edge_id) ==
    IF \E i \in 1..Len(g.edges) : g.edges[i].id = edge_id
    THEN <<g.edges[CHOOSE i \in 1..Len(g.edges) :
                      /\ g.edges[i].id = edge_id
                      /\ \A j \in (i + 1)..Len(g.edges) : g.edges[j].id # edge_id]>>
    ELSE <<>>

\* What visualize_routing_decision(step) does on the graph g and the history:
\* the text it returns (the rendering kept as its parts) or the exception.
RoutingDecision(g, history, step) ==
    IF step >= Len(history)
    THEN [outcome |-> "returned", text |-> "Step not found in history"]
    ELSE IF ListIndex(Len(history), step) = NoNumber
    THEN [outcome |-> "raised", text |-> "IndexError"]
    ELSE LET decision == history[ListIndex(Len(history), step)]
             edge == EdgeMapGet(g, decision.edge_id)
         IN IF edge = <<>>
            THEN [outcome |-> "returned", text |-> "Edge not found"]
            ELSE [outcome |-> "returned", text |-> "ROUTING DECISION",
                  header_step |-> step, position |-> ListIndex(Len(history), step),
                  edge_id |-> edge[1].id, source |-> edge[1].source,
                  target |-> edge[1].target, reason |-> decision.reason]

\* visualize_routing_decision(step)
VisualizeRoutingDecision(step) ==
    /\ routing_view' = [step |-> step, length |-> Len(traversal_history)]
                       @@ RoutingDecision(graph, traversal_history, step)
    /\ UNCHANGED call_stats
    /\ UNCHANGED routeVars

\* The step arguments: every position of a history, one past it, and as many
\* below zero.
DecisionSteps == (0 - MaxTraversals - 1)..MaxTraversals

DecisionNext ==
    \/ \E edge_id \in EdgeIds :
          /\ Len(traversal_history) < MaxTraversals
          /\ RecordTraversal(edge_id, <<Item("a", "1")>>, "matched", None)
          /\ UNCHANGED <<debuggerVars, observeVars, sessionVars, tracerVars, callerVars,
                         visualizerVars, inspectorVars, nodeInspectorVars, renderVars,
                         securityVars, hostVars, eventVars, reportVars>>
    \/ \E step \in DecisionSteps :
          /\ VisualizeRoutingDecision(step)
          /\ UNCHANGED <<debuggerVars, observeVars, sessionVars, tracerVars, callerVars,
                         visualizerVars, inspectorVars, nodeInspectorVars, renderVars,
                         securityVars, hostVars, eventVars>>

DecisionSpec == RenderSpecInit /\ [][DecisionNext]_vars

\* ====================================================== operator at a pause

\* The inputs that read as one of the commands, and those among them that read
\* as continue, single-step or quit.
CommandInputs ==
    {raw \in RawInputs : ReadCommand(raw) \in {<<"c">>, <<"s">>, <<"i">>, <<"q">>}}
ResumeInputs == {raw \in CommandInputs : ReadCommand(raw) # <<"i">>}

\* The operator answers the prompt with continue, single-step or quit.
OperatorResumes ==
    \E raw \in ResumeInputs :
       /\ OperatorInput(raw)
       /\ UNCHANGED <<tracerVars, callerVars, visualizerVars, inspectorVars,
                      nodeInspectorVars, renderVars, routeVars, securityVars, hostVars,
                      eventVars, reportVars>>

\* on_breakpoint_hit returns to _pause_at_breakpoint.
CallbackCompletes ==
    /\ CallbackReturns
    /\ UNCHANGED <<tracerVars, callerVars, visualizerVars, inspectorVars,
                   nodeInspectorVars, renderVars, routeVars, securityVars, hostVars,
                   eventVars, reportVars>>

\* A session with a breakpoint at B, run or paused directly, whose operator
\* answers every prompt with a command.
PauseNext ==
    \/ SetBreakpoint("B", "NODE_ENTER", None) /\ SessionIdle
    \/ /\ pc = "idle"
       /\ SetCallback
       /\ UNCHANGED <<tracerVars, callerVars, visualizerVars, inspectorVars,
                      nodeInspectorVars, renderVars, routeVars, securityVars, hostVars,
                      eventVars, reportVars>>
    \/ /\ PauseAtBreakpoint(FormatBpId("NODE_ENTER", "B"))
       /\ UNCHANGED <<tracerVars, callerVars, visualizerVars, inspectorVars,
                      nodeInspectorVars, renderVars, routeVars, securityVars, hostVars,
                      eventVars, reportVars>>
    \/ /\ RunWithDebugging(EmptyContext)
       /\ UNCHANGED <<tracerVars, callerVars, visualizerVars, inspectorVars,
                      nodeInspectorVars, renderVars, routeVars, securityVars, hostVars,
                      eventVars, reportVars>>
    \/ /\ EngineEvent
       /\ UNCHANGED <<tracerVars, callerVars, visualizerVars, inspectorVars,
                      nodeInspectorVars, renderVars, routeVars, securityVars, hostVars,
                      eventVars, reportVars>>
    \/ /\ EngineFinish
       /\ UNCHANGED <<tracerVars, callerVars, visualizerVars, inspectorVars,
                      nodeInspectorVars, renderVars, routeVars, securityVars, hostVars,
                      eventVars, reportVars>>
    \/ CallbackCompletes
    \/ \E raw \in CommandInputs :
          /\ ReadCommand(raw) = <<"i">>
          /\ OperatorInput(raw)
          /\ UNCHANGED <<tracerVars, callerVars, visualizerVars, inspectorVars,
                         nodeInspectorVars, renderVars, routeVars, securityVars, hostVars,
                         eventVars, reportVars>>
    \/ OperatorResumes

PauseSpec == SessionInit /\ [][PauseNext]_vars

\* The callback returns, and the operator does not go on inspecting for ever:
\* continue, single-step or quit comes in the end.
PauseFairSpec == PauseSpec /\ WF_vars(CallbackCompletes) /\ WF_vars(OperatorResumes)

\* ============================================================ sandbox ids

\* Id triples of non-empty strs: the tests' ids, and ids that are "..", hold
\* ".." components, or start with the separator.
SeparatorIdTriples ==
    LET w == Rel(<<"test-workspace">>)
        a == Rel(<<"test-agent">>)
        s == Rel(<<"test-session">>)
    IN {<<w, a, s>>, <<Rel(<<"..">>), Rel(<<"..">>), s>>, <<w, Abs(<<"etc">>), s>>,
        <<Rel(<<"w", "..", "..", "y">>), a, s>>, <<w, a, Rel(<<"s", "sub">>)>>}

\* get_secure_path with such ids, in a file system without symlinks.
IdsNext ==
    \E path \in {Rel(<<>>), Rel(<<"file.txt">>), Abs(<<"etc", "passwd">>),
                 Rel(<<"..", "file.txt">>)} :
       \E ids \in SeparatorIdTriples :
          /\ GetSecurePath(path, ids[1], ids[2], ids[3])
          /\ UNCHANGED <<debuggerVars, observeVars, sessionVars, tracerVars, callerVars,
                         visualizerVars, inspectorVars, nodeInspectorVars, renderVars,
                         routeVars, hostVars, eventVars, reportVars>>

IdsSpec == Init /\ [][IdsNext]_vars

\* ================================================================ claims

\* A step is a _should_break call when it leaves `last` naming one.
IsShouldBreakStep == last'.op = "_should_break"

\* The breakpoint a _should_break call is about, in the state before the call.
CalledId == last'.bp_id
CalledRegistered == CalledId \in DOMAIN breakpoints

\* ---------------------------------------------------------------- C1

\* On a call about an enabled breakpoint without condition: True is returned,
\* that counter goes up by exactly 1, every other entry is as it was.
C1_Step ==
    (IsShouldBreakStep /\ CalledRegistered
        /\ breakpoints[CalledId].enabled /\ ~Truthy(breakpoints[CalledId].condition))
    => /\ ret' = "True"
       /\ DOMAIN breakpoints' = DOMAIN breakpoints
       /\ breakpoints'[CalledId].hit_count = breakpoints[CalledId].hit_count + 1
       /\ \A i \in DOMAIN breakpoints : i # CalledId => breakpoints'[i] = breakpoints[i]

\* The counter of a breakpoint without condition is the number of calls made on
\* it, while enabled, since it was set or the session was reset.
C1_Count ==
    \A i \in DOMAIN breakpoints :
        ~Truthy(breakpoints[i].condition) => breakpoints[i].hit_count = matched[i]

\* C1: for every enabled breakpoint that has no condition, every _should_break
\* call with its (event-kind, target) returns true and raises its hit counter by
\* exactly 1, leaving the other counters unchanged; after n such calls since it
\* was set or the session was reset, its hit counter is n.
C1_UnconditionalBreakpointCountsEveryCall == [][C1_Step]_vars /\ []C1_Count

\* Two calls in a row were counted on a breakpoint without condition.
C1_Witness ==
    /\ last.op = "_should_break"
    /\ last.bp_id \in DOMAIN breakpoints
    /\ breakpoints[last.bp_id].condition = None
    /\ breakpoints[last.bp_id].enabled
    /\ ret = "True"
    /\ breakpoints[last.bp_id].hit_count = 2
    /\ matched[last.bp_id] = 2
    /\ Cardinality(DOMAIN breakpoints) > 1

\* ---------------------------------------------------------------- C2

\* (a) nothing is registered for the pair
C2_NoMatch == ~CalledRegistered
\* (b) the matching breakpoint is disabled
C2_Disabled == CalledRegistered /\ ~breakpoints[CalledId].enabled
\* (c) the matching breakpoint is enabled and its condition evaluates to one of `outcomes`
C2_Condition(outcomes) ==
    /\ CalledRegistered
    /\ breakpoints[CalledId].enabled
    /\ Truthy(breakpoints[CalledId].condition)
    /\ Eval(breakpoints[CalledId].condition, last'.context) \in outcomes

C3_OneEntryPerIdentity ==
    /\ \A i \in DOMAIN breakpoints :
          /\ breakpoints[i].id = i
          /\ i = FormatBpId(breakpoints[i].breakpoint_type, breakpoints[i].target)
    /\ \A i, j \in DOMAIN breakpoints :
          (breakpoints[i].breakpoint_type = breakpoints[j].breakpoint_type
              /\ breakpoints[i].target = breakpoints[j].target) => i = j
    /\ Cardinality(DOMAIN breakpoints) <= Cardinality(Identities)

\* A registered pair was set again, beside two other entries, one of the same
\* target and one of the same event kind.
C3_Witness ==
    /\ last.op = "set_breakpoint"
    /\ last.existed
    /\ DOMAIN breakpoints = {FormatBpId(p[1], p[2]) : p \in Identities}
    /\ breakpoints[last.bp_id].hit_count = 0

\* ---------------------------------------------------------------- C4

\* C4: in a well-nested sequence of start_tool_call/end_tool_call begun at depth
\* 0, each call's recorded call_stack_depth is the tracer's depth just before
\* the call started, which is the number of calls of the sequence open then (so
\* a nested call is deeper than its parent); ending a call puts the depth back
\* to what it was just before that call started; and with every call closed the
\* depth is 0.
C4_DepthFollowsNesting ==
    /\ well_nested =>
          /\ call_stack_depth = Len(seq_open)
          /\ \A i \in 1..Len(seq_open) : calls[seq_open[i]].call_stack_depth = i - 1
          /\ \A i, j \in 1..Len(seq_open) :
                i < j => calls[seq_open[i]].call_stack_depth
                           < calls[seq_open[j]].call_stack_depth
    /\ (tlast.op = "start_tool_call" /\ tlast.nested) =>
          /\ calls[tlast.call].call_stack_depth = tlast.depth_before
          /\ calls[tlast.call].call_stack_depth = tlast.open_before
    /\ (tlast.op = "end_tool_call" /\ tlast.nested) =>
          /\ call_stack_depth = calls[tlast.call].call_stack_depth
          /\ call_stack_depth = tlast.depth_before - 1
    /\ (well_nested /\ seq_open = <<>>) => call_stack_depth = 0

\* Three calls were nested and the innermost was just ended.
C4_Witness ==
    /\ well_nested
    /\ tlast.op = "end_tool_call"
    /\ tlast.nested
    /\ tlast.depth_before = 3
    /\ call_stack_depth = 2
    /\ Len(seq_open) = 2

\* ---------------------------------------------------------------- C5

\* C5: after any sequence of start_trace, end_trace, start_tool_call,
\* end_tool_call and clear_traces, including ends of a call never started on
\* this tracer, repeated ends and more ends than starts, call_stack_depth is
\* never negative.
C5_DepthNeverNegative == call_stack_depth >= 0

\* The call the tracer never started was ended at depth 0, another call open.
C5_Witness ==
    /\ tlast.op = "end_tool_call"
    /\ tlast.call = 0
    /\ tlast.depth_before = 0
    /\ call_stack_depth = 0
    /\ active_tool_calls # <<>>

\* ---------------------------------------------------------------- C6

\* A step in which the operator answers the debugger> prompt.
IsInputStep == pc = "input" /\ last'.op = "input"

C6_Step ==
    IsInputStep =>
        /\ interactive
        /\ state.paused
        /\ command' = <<"c">> =>
              /\ ~state'.paused
              /\ pc' = ReturnPc
              /\ step_mode' = step_mode
        /\ command' = <<"s">> =>
              /\ ~state'.paused
              /\ pc' = ReturnPc
              /\ step_mode'
        /\ command' = <<"i">> =>
              /\ state'.paused
              /\ pc' \in {"callback", "input"}
              /\ breakpoints' = breakpoints
              /\ state'.step_count = state.step_count
              /\ in_run' = in_run
        /\ command' = <<"q">> =>
              /\ ret' = "KeyboardInterrupt"
              /\ pc' = "idle"
              /\ ~in_run'
              /\ in_run => engine_outcome' = "KeyboardInterrupt"

\* C6: in interactive mode a paused session reacts to the operator's command:
\* continue resumes it with step mode unchanged, single-step resumes it with
\* step mode armed, inspect leaves it paused with breakpoints, hit counters and
\* step counter unchanged and waits again, quit ends the run with the
\* cancellation signal (KeyboardInterrupt).
C6_InteractiveCommands == [][C6_Step]_vars

\* The operator typed " S" at a pause inside a run: the run resumed, step mode armed.
C6_Witness ==
    /\ interactive
    /\ last.op = "input"
    /\ command = <<"s">>
    /\ step_mode
    /\ ~state.paused
    /\ pc = "running"

\* ---------------------------------------------------------------- C7

\* A step that enters _pause_at_breakpoint from a caller.
IsPauseEntryStep ==
    \/ last'.op = "_pause_at_breakpoint" /\ pc = "idle"
    \/ last'.op = "engine event" /\ pc = "running" /\ ret' = "True"

C7_Entry ==
    (IsPauseEntryStep /\ ~interactive) =>
        IF on_breakpoint_hit
        THEN state'.paused /\ pc' = "callback" /\ cb_calls' = 1
        ELSE ~state'.paused /\ pc' = ReturnPc /\ cb_calls' = 0

C7_Return ==
    (pc = "callback" /\ pc' # "callback" /\ ~interactive) =>
        ~state'.paused /\ pc' = ReturnPc

C7_State ==
    /\ pc = "callback" => state.paused
    /\ ~interactive => pc # "input"

\* C7: in non-interactive mode a pause sets the paused flag, invokes the
\* breakpoint-hit callback (when set) while the flag is set, then clears the
\* flag without waiting for a command; the session never waits for input.
C7_NonInteractiveAutoResume == [][C7_Entry /\ C7_Return]_vars /\ []C7_State

\* A non-interactive run was paused, its callback ran once, and it resumed.
C7_Witness ==
    /\ ~interactive
    /\ on_breakpoint_hit
    /\ last.op = "on_breakpoint_hit returns"
    /\ cb_calls = 1
    /\ pause_events = 1
    /\ ~state.paused
    /\ pc = "running"

\* ---------------------------------------------------------------- C8

\* A step in which run_with_debugging ends.
IsRunEndStep == in_run /\ ~in_run'

C8_Step ==
    IsRunEndStep =>
        /\ (last'.op = "input" /\ command' = <<"q">>) =>
              /\ run_result' = "debugging_stopped"
              /\ breakpoints' = breakpoints
        /\ last'.op # "input" => run_result' = engine_outcome'
        /\ last'.op = "run_with_debugging returns" => run_result' = "engine_result"

\* C8: a quit during an interactive pause of a run makes run_with_debugging
\* return the 'debugging stopped' result and leaves the breakpoints and their
\* hit counts as they were; a run that ends without quit ends as the engine
\* ended, with the engine's result when it returned one.
C8_QuitReturnsDebuggingStopped == [][C8_Step]_vars

\* The operator quit a run at a pause: the breakpoint hit is still counted.
C8_Witness ==
    /\ last.op = "input"
    /\ command = <<"q">>
    /\ run_result = "debugging_stopped"
    /\ \E i \in DOMAIN breakpoints : breakpoints[i].hit_count = 1
    /\ pc = "idle"

\* ---------------------------------------------------------------- C9

\* C9: with step mode enabled the session pauses after every node boundary of
\* the run, whether or not a breakpoint matches there.
C9_StepModePausesAtEveryBoundary ==
    [][(pc = "running" /\ last'.op = "engine event" /\ step_mode
        /\ Events[run_pos].breakpoint_type = "NODE_EXIT")
       => pause_events' = pause_events + 1]_vars

\* ---------------------------------------------------------------- C10

\* The registry of the example: one breakpoint, on node-enter B, enabled, and
\* matching whenever it is evaluated under `context`.
IsScenario(bps, context) ==
    /\ Cardinality(DOMAIN bps) = 1
    /\ \A i \in DOMAIN bps :
          /\ bps[i].breakpoint_type = "NODE_ENTER"
          /\ bps[i].target = "B"
          /\ bps[i].enabled
          /\ Truthy(bps[i].condition) => Eval(bps[i].condition, context) = "truthy"

\* The position of the node-enter B event in Events.
EnterB == CHOOSE i \in DOMAIN Events : Events[i] = [breakpoint_type |-> "NODE_ENTER", target |-> "B"]

C10_State ==
    (in_run /\ IsScenario(run_bps, state.context)) =>
        pause_events = IF run_pos > EnterB THEN 1 ELSE 0

C10_Step ==
    (in_run /\ IsScenario(run_bps, state.context) /\ last'.op = "run_with_debugging returns") =>
        /\ pause_events' = 1
        /\ \A i \in DOMAIN run_bps :
              /\ i \in DOMAIN breakpoints'
              /\ breakpoints'[i].hit_count = run_bps[i].hit_count + 1
        /\ run_result' = "engine_result"

Kept == DOMAIN breakpoints \cap DOMAIN breakpoints'

\* The step is set_breakpoint for the identity i.
IsSetOf(i) == last'.op = "set_breakpoint" /\ last'.bp_id = i

C11_Original ==
    [][last'.op # "reset" =>
          \A i \in Kept : breakpoints'[i].hit_count >= breakpoints[i].hit_count]_vars

C11_Step ==
    /\ \A i \in Kept :
          (last'.op # "reset" /\ ~IsSetOf(i)) =>
              breakpoints'[i].hit_count >= breakpoints[i].hit_count
    /\ \A i \in DOMAIN breakpoints' :
          breakpoints'[i].hit_count = 0 =>
              \/ i \in DOMAIN breakpoints /\ breakpoints[i].hit_count = 0
              \/ last'.op = "reset"
              \/ IsSetOf(i)

\* C11: the hit count of an identity never decreases across _should_break and
\* pause operations and set_breakpoint of other identities; it goes back to 0
\* only through reset() or through set_breakpoint of the same identity, which
\* replaces the entry.
C11_HitCountMonotonic == [][C11_Step]_vars

\* A breakpoint hit in two runs, the operator having answered a pause: count 2.
C11_Witness ==
    /\ last.op = "input"
    /\ \E i \in DOMAIN breakpoints : breakpoints[i].hit_count = 2

\* ---------------------------------------------------------------- C12

C12_Step ==
    last'.op = "reset" =>
        /\ DOMAIN breakpoints' = DOMAIN breakpoints
        /\ \A i \in DOMAIN breakpoints :
              /\ breakpoints'[i].id = breakpoints[i].id
              /\ breakpoints'[i].breakpoint_type = breakpoints[i].breakpoint_type
              /\ breakpoints'[i].target = breakpoints[i].target
              /\ breakpoints'[i].condition = breakpoints[i].condition
              /\ breakpoints'[i].enabled = breakpoints[i].enabled
              /\ breakpoints'[i].hit_count = 0
        /\ state'.current_node = None
        /\ state'.current_edge = None
        /\ state'.context = EmptyContext
        /\ state'.step_count = 0
        /\ state'.tool_calls = <<>>
        /\ state'.errors = <<>>
        /\ ~state'.paused
        /\ trace_history' = <<>>

\* C12: reset() keeps the registered breakpoints and each one's event kind,
\* target, condition and enabled flag, sets every hit counter to 0, and
\* replaces the debug state by an initial one with an empty trace history.
C12_ResetKeepsDefinitions == [][C12_Step]_vars

\* reset() after a run that the operator quit at a pause (the run had left a
\* context, a hit and the paused flag behind).
C12_Witness ==
    /\ last.op = "reset"
    /\ command = <<"q">>
    /\ run_result = "debugging_stopped"
    /\ DOMAIN breakpoints # {}
    /\ \A i \in DOMAIN breakpoints : breakpoints[i].hit_count = 0
    /\ state = NewDebugState

\* ---------------------------------------------------------------- C13

C13_State == current_trace # NoNumber => current_trace = Len(traces)

C13_Start ==
    tlast'.op = "start_trace" =>
        /\ Len(traces') = Len(traces) + 1
        /\ SubSeq(traces', 1, Len(traces)) = traces
        /\ current_trace' = Len(traces')
        /\ traces'[current_trace'].end_time = NoNumber

\* A trace that is in the history and is not the current one keeps its end
\* time and total duration for as long as it is in the history.
C13_Orphan ==
    tlast'.op # "clear_traces" =>
        \A i \in 1..Len(traces) :
            i # current_trace =>
                /\ i <= Len(traces')
                /\ i # current_trace'
                /\ traces'[i].end_time = traces[i].end_time
                /\ traces'[i].total_duration_ms = traces[i].total_duration_ms

C13_End ==
    (tlast'.op = "end_trace" /\ current_trace = NoNumber) =>
        /\ tlast'.call = NoNumber
        /\ traces' = traces
        /\ current_trace' = NoNumber
        /\ UNCHANGED <<active_tool_calls, call_stack_depth, calls>>

\* C13: the tracer has at most one current trace, and it is the most recently
\* started one and the last entry of the history; start_trace while another is
\* unfinished makes the new one current and keeps the old one in the history,
\* which no later end_trace finalizes; end_trace with no current trace returns
\* None and changes nothing.
C13_OneCurrentTrace ==
    []C13_State /\ [][C13_Start /\ C13_Orphan /\ C13_End]_vars

\* Two traces started one after the other, then end_trace twice: the second
\* trace is ended, the first never is.
C13_Witness ==
    /\ Len(traces) = 2
    /\ traces[1].end_time = NoNumber
    /\ traces[1].total_duration_ms = NoNumber
    /\ traces[2].end_time # NoNumber
    /\ tlast.op = "end_trace"
    /\ tlast.call = NoNumber
    /\ current_trace = NoNumber

\* ---------------------------------------------------------------- C14

\* C14: a ToolCall's status only moves from pending to success or to failed,
\* and once the call is closed no tracer operation, another end_tool_call on
\* it included, changes its status, result, error, end time or duration.
C14_ClosedCallImmutable ==
    [][\A r \in DOMAIN calls :
          /\ calls'[r].status # calls[r].status =>
                calls[r].status = "pending" /\ calls'[r].status \in {"success", "failed"}
          /\ calls[r].status # "pending" =>
                /\ calls'[r].status = calls[r].status
                /\ calls'[r].result = calls[r].result
                /\ calls'[r].error = calls[r].error
                /\ calls'[r].end_time = calls[r].end_time
                /\ calls'[r].duration_ms = calls[r].duration_ms]_vars

\* ---------------------------------------------------------------- C15

\* C15: the arguments recorded in a ToolCall read as they did at
\* start_tool_call, whatever the caller does afterwards to the dict it passed
\* or to a value reachable from it.
C15_ArgumentsSnapshot ==
    \A r \in DOMAIN arguments_at_start :
        Contents(calls[r].arguments, objects) = arguments_at_start[r]

\* ---------------------------------------------------------------- C16

\* The step ends, with a non-empty error, a call that start_tool_call made.
IsFailingEnd ==
    /\ tlast'.op = "end_tool_call"
    /\ tlast'.error # None /\ tlast'.error # ""
    /\ tlast'.call \in DOMAIN arguments_at_start

\* The call of the step is in the current trace.
InCurrentTrace(r) ==
    /\ current_trace # NoNumber
    /\ \E i \in 1..Len(traces[current_trace].tool_calls) :
          traces[current_trace].tool_calls[i] = r

C16_Step ==
    IsFailingEnd =>
        LET r == tlast'.call
            before == GetToolCallStats
            after == ToolCallStats(current_trace', traces', calls')
        IN /\ calls'[r].status = "failed"
           /\ calls'[r].error = tlast'.error
           /\ calls'[r].duration_ms # NoNumber
           /\ calls'[r].duration_ms >= 0
           /\ calls'[r].duration_ms = (now - calls[r].start_time) * 1000
           /\ InCurrentTrace(r) =>
                 /\ after.total_calls = before.total_calls
                 /\ after.failed >= 1
                 /\ after.failed = before.failed + (IF calls[r].status = "failed" THEN 0 ELSE 1)
                 /\ after.successful =
                       before.successful - (IF calls[r].status = "success" THEN 1 ELSE 0)
                 /\ after.successful + after.failed <= after.total_calls

\* C16: a tool call that was started and is ended with a non-empty error
\* string has status failed, carries that error text, has a duration_ms that is
\* a non-negative number, and is counted by get_tool_call_stats() of its trace
\* among the failed calls and not among the successful ones.
C16_FailedCallRecorded == [][C16_Step]_vars

\* "search" started in a trace and ended later with error "timeout".
C16_Witness ==
    /\ tlast.op = "end_tool_call"
    /\ tlast.error = "timeout"
    /\ tlast.call = 1
    /\ calls[1].status = "failed"
    /\ calls[1].error = "timeout"
    /\ calls[1].duration_ms = 1000
    /\ current_trace # NoNumber
    /\ GetToolCallStats.failed = 1
    /\ GetToolCallStats.successful = 0

\* ---------------------------------------------------------------- C17

\* The node a call of find_execution_paths starts from.
Start == StartOf(graph, start_node)

\* Whether the graph has an edge from v to w / any edge from v.
HasEdge(v, w) == \E j \in 1..Len(graph.edges) : graph.edges[j] = Edge(v, w)
IsTerminal(v) == \A j \in 1..Len(graph.edges) : graph.edges[j].source # v

\* C17: every path find_execution_paths records has at most max_depth + 1
\* nodes; a branch that would need more leaves no path behind, not even a
\* truncated one: each recorded path runs from the start node along edges to a
\* node with no outgoing edges.
C17_PathLengthBounded ==
    \A i \in 1..Len(paths) :
        /\ Len(paths[i]) <= max_depth + 1
        /\ paths[i][1] = Start
        /\ \A k \in 1..(Len(paths[i]) - 1) : HasEdge(paths[i][k], paths[i][k + 1])
        /\ IsTerminal(paths[i][Len(paths[i])])

\* A -> B, B -> A, B -> C with max_depth 2: the branch A, B, A, B is abandoned.
C17_Witness ==
    /\ vis_pc = "idle"
    /\ graph.edges = <<Edge("A", "B"), Edge("B", "A"), Edge("B", "C")>>
    /\ start_node = None
    /\ max_depth = 2
    /\ paths = <<(<<"A", "B", "C">>)>>

\* ---------------------------------------------------------------- C18

\* The walks of n nodes along the graph's edges.
Walks(n) ==
    {w \in [1..n -> NodeIds] : \A k \in 1..(n - 1) : HasEdge(w[k], w[k + 1])}

\* No walk visits more nodes than there are: the graph has no cycle.
IsAcyclic == Walks(Len(graph.nodes) + 1) = {}

\* The walks from the start node to a node with no outgoing edges.
TerminalPaths ==
    {w \in UNION {Walks(n) : n \in 1..Len(graph.nodes)} :
        w[1] = Start /\ IsTerminal(w[Len(w)])}

\* The number of edges of the longest of them.
LongestPath == CHOOSE m \in 0..Len(graph.nodes) :
    /\ \E w \in TerminalPaths : Len(w) - 1 = m
    /\ \A w \in TerminalPaths : Len(w) - 1 <= m

C18_Step ==
    (vis_pc = "dfs" /\ vis_pc' = "idle" /\ IsAcyclic /\ max_depth >= LongestPath) =>
        {paths'[i] : i \in 1..Len(paths')} = TerminalPaths

\* C18: on an acyclic graph, with max_depth at least the number of edges of the
\* longest path from the start, find_execution_paths returns exactly the paths
\* that begin at the start node (the entry point by default), follow one edge
\* per step and end at a node with no outgoing edges.
C18_AllTerminalPaths == [][C18_Step]_vars

\* A -> B, A -> C, B -> C from the entry point: both paths, in edge order.
C18_Witness ==
    /\ vis_pc = "idle"
    /\ graph.edges = <<Edge("A", "B"), Edge("A", "C"), Edge("B", "C")>>
    /\ start_node = None
    /\ max_depth = 2
    /\ paths = <<(<<"A", "B", "C">>), (<<"A", "C">>)>>

\* ---------------------------------------------------------------- C19

\* C19: every call of find_execution_paths returns, whatever the graph
\* (cycles, self-loops, no terminal node) and whatever max_depth.
C19_FindPathsTerminates == (vis_pc = "dfs") ~> (vis_pc = "idle")

\* The call returned on a graph whose only edge is a self-loop: no path.
C19_Witness ==
    /\ vis_pc = "idle"
    /\ graph.edges = <<Edge("A", "A")>>
    /\ start_node = "A"
    /\ max_depth = 3
    /\ paths = <<>>

\* ---------------------------------------------------------------- C20

\* C20: for two steps that both have a snapshot, compare_snapshots one way
\* round and the other give each other's added and removed keys, the same
\* common keys, and opposite step differences.
C20_CompareAntiSymmetric ==
    comparison.found =>
        LET forth == comparison
            back == CompareResult(snapshots, comparison.step2, comparison.step1)
        IN /\ back.found
           /\ forth.added_keys = back.removed_keys
           /\ forth.removed_keys = back.added_keys
           /\ forth.common_keys = back.common_keys
           /\ forth.step_diff = -back.step_diff

\* Snapshots with keys a at step 1 and b, c at step 3, compared.
C20_Witness ==
    /\ comparison.found
    /\ comparison.step1 = 1
    /\ comparison.step2 = 3
    /\ comparison.added_keys = {"b", "c"}
    /\ comparison.removed_keys = {"a"}
    /\ comparison.common_keys = {}
    /\ comparison.step_diff = 2

\* ---------------------------------------------------------------- C21

\* C21: the stored snapshots are in increasing step order and no two of them
\* carry the same step number.
C21_SnapshotsOrderedAndUnique ==
    \A i, j \in 1..Len(snapshots) : i < j => snapshots[i].step < snapshots[j].step

\* ---------------------------------------------------------------- C22

\* C22: inspect_node, inspect_node_inputs and inspect_node_outputs called with a
\* node id the graph lacks, and compare_snapshots called with a step no snapshot
\* has, return an error payload, and leave the execution history and the stored
\* snapshots as they were.
C22_NotFoundIsAnErrorPayload ==
    [][/\ (inspection' # inspection /\ inspection'.node_id \notin DOMAIN NodeMap(InspectedNodes))
          => /\ DOMAIN inspection'.result = {"error"}
             /\ execution_history' = execution_history
             /\ snapshots' = snapshots
       /\ (/\ comparison' # comparison
           /\ \/ GetSnapshot(snapshots, comparison'.step1) = NoNumber
              \/ GetSnapshot(snapshots, comparison'.step2) = NoNumber)
          => /\ "error" \in DOMAIN comparison'
             /\ ~comparison'.found
             /\ execution_history' = execution_history
             /\ snapshots' = snapshots]_vars

\* Node Z inspected for its inputs, and step 3 compared, with an execution
\* recorded and a snapshot of step 1 stored.
C22_Witness ==
    /\ inspection.op = "inspect_node_inputs"
    /\ inspection.node_id = "Z"
    /\ inspection.result = [error |-> "Node 'Z' not found"]
    /\ execution_history # <<>>
    /\ Len(snapshots) = 1
    /\ snapshots[1].step = 1
    /\ comparison.step1 = 1
    /\ comparison.step2 = 3
    /\ comparison.error = "One or both snapshots not found"

\* ---------------------------------------------------------------- C28

\* C28: for a node of the graph, inspect_node_inputs and inspect_node_outputs
\* return exactly one entry per declared key: value, type and size for a key the
\* context holds, status missing with required true for an absent input key,
\* status not_produced for an absent output key.
C28_OneEntryPerDeclaredKey ==
    (/\ inspection.op \in {"inspect_node_inputs", "inspect_node_outputs"}
     /\ inspection.node_id \in DOMAIN NodeMap(InspectedNodes))
    => LET node == NodeMap(InspectedNodes)[inspection.node_id]
           inputs == inspection.op = "inspect_node_inputs"
           declared == IF inputs THEN node.input_keys ELSE node.output_keys
           entries == IF inputs THEN inspection.result.inputs ELSE inspection.result.outputs
       IN /\ DOMAIN entries = {declared[i] : i \in 1..Len(declared)}
          /\ \A key \in DOMAIN entries :
                IF key \in DOMAIN inspection.context
                THEN /\ DOMAIN entries[key] = {"value", "type", "size"}
                     /\ entries[key].type = inspection.context[key].type
                ELSE entries[key] = IF inputs THEN [status |-> "missing", required |-> TRUE]
                                    ELSE [status |-> "not_produced"]

\* The inputs of B inspected in a context that holds y, lacks z and holds keys B
\* does not declare.
C28_Witness ==
    /\ inspection.op = "inspect_node_inputs"
    /\ inspection.node_id = "B"
    /\ DOMAIN inspection.context = {"x", "y", "extra"}
    /\ inspection.result.inputs.y = [value |-> <<"a", "b">>, type |-> "list", size |-> "2 items"]
    /\ inspection.result.inputs.z = [status |-> "missing", required |-> TRUE]

\* ---------------------------------------------------------------- C23

\* What a list is: a function on 1..n.
IsList(x) == DOMAIN x = 1..Len(x)

\* C23: get_node_connectivity and find_execution_paths called with a node id the
\* graph lacks return an error payload: not a connectivity record, not a list
\* of paths.
C23_UnknownNodeIsAnError ==
    /\ (connectivity.node_id # None /\ connectivity.node_id \notin SetOf(graph.nodes))
       => "error" \in DOMAIN connectivity.result
    /\ (vis_pc = "idle" /\ start_node # None /\ start_node \notin SetOf(graph.nodes))
       => ~IsList(paths)

\* ---------------------------------------------------------------- C26

\* Whether a condition denotes conditional routing: the CONDITIONAL member, or
\* its name given as a plain str.
DenotesConditional(condition) ==
    \/ condition = EdgeCondition.CONDITIONAL
    \/ condition = RawCondition(<<"C", "O", "N", "D", "I", "T", "I", "O", "N", "A", "L">>)

\* C26: in the DOT rendering an edge carries style="dashed" exactly when its
\* condition denotes conditional routing.
C26_DashedIffConditional ==
    \A i \in 1..Len(dot) :
        ("style=\"dashed\"" \in SetOf(dot[i].attrs)) <=> DenotesConditional(graph.edges[i].condition)

\* ---------------------------------------------------------------- C27

\* How many of the recorded traversals are of the edge, and where its first is.
TraversalCount(edge_id) ==
    Cardinality({i \in 1..Len(traversal_history) : traversal_history[i].edge_id = edge_id})
FirstTraversal(edge_id) ==
    CHOOSE i \in 1..Len(traversal_history) :
        /\ traversal_history[i].edge_id = edge_id
        /\ \A j \in 1..(i - 1) : traversal_history[j].edge_id # edge_id
RecordedEdges == {traversal_history[i].edge_id : i \in 1..Len(traversal_history)}

RECURSIVE SumCounts(_)
SumCounts(edge_counts) ==
    IF edge_counts = <<>> THEN 0 ELSE Head(edge_counts).count + SumCounts(Tail(edge_counts))

\* C27: get_edge_usage_stats reports the number of recorded traversals, per-edge
\* counts that are each edge's number of traversals and sum to the total, the
\* number of different edges recorded, and as most-used edge the edge of
\* greatest count that was recorded first among those of that count, or
\* nothing when no traversal is recorded.
C27_EdgeUsageStats ==
    [][edge_usage_stats' # edge_usage_stats =>
        LET stats == edge_usage_stats'
        IN /\ stats.total_traversals = Len(traversal_history)
           /\ SumCounts(stats.edge_counts) = stats.total_traversals
           /\ {stats.edge_counts[i].edge_id : i \in 1..Len(stats.edge_counts)} = RecordedEdges
           /\ \A i \in 1..Len(stats.edge_counts) :
                 stats.edge_counts[i].count = TraversalCount(stats.edge_counts[i].edge_id)
           /\ stats.unique_edges_used = Cardinality(RecordedEdges)
           /\ IF traversal_history = <<>> THEN stats.most_used_edge = <<>>
              ELSE /\ stats.most_used_edge[1] \in RecordedEdges
                   /\ stats.most_used_edge[2] = TraversalCount(stats.most_used_edge[1])
                   /\ \A e \in RecordedEdges :
                         /\ TraversalCount(e) <= stats.most_used_edge[2]
                         /\ TraversalCount(e) = stats.most_used_edge[2]
                            => FirstTraversal(stats.most_used_edge[1]) <= FirstTraversal(e)]_vars

\* e2, e1, e1, e2 recorded: both edges have two traversals and e2 came first.
C27_Witness ==
    /\ Len(traversal_history) = 4
    /\ traversal_history[1].edge_id = "e2"
    /\ traversal_history[2].edge_id = "e1"
    /\ edge_usage_stats.total_traversals = 4
    /\ edge_usage_stats.unique_edges_used = 2
    /\ edge_usage_stats.most_used_edge = <<"e2", 2>>

\* ---------------------------------------------------------------- C24

\* <WORKSPACES_DIR>/<workspace_id>/<agent_id>/<session_id>, as components.
SessionDirOf(call) ==
    WORKSPACES_DIR.parts \o call.workspace_id.parts \o call.agent_id.parts
    \o call.session_id.parts

\* Whether a str or None is empty or None.
IsEmptyOrNone(s) == s.none \/ (~s.abs /\ s.parts = <<>>)

\* Whether the call was given three non-empty ids.
HasIds(call) ==
    /\ call.outcome # "none"
    /\ ~IsEmptyOrNone(call.workspace_id)
    /\ ~IsEmptyOrNone(call.agent_id)
    /\ ~IsEmptyOrNone(call.session_id)

\* Whether the sequence starts with the other.
IsPrefix(prefix, sequence) ==
    Len(prefix) <= Len(sequence) /\ SubSeq(sequence, 1, Len(prefix)) = prefix

\* C24: with non-empty ids, get_secure_path returns a fully resolved path that
\* is the session directory or lies beneath it, or raises the 'outside the
\* session sandbox' error; the absolute path /etc/passwd is returned as
\* etc/passwd of the session directory.
C24_NeverOutsideTheSessionDir ==
    HasIds(secure_path) =>
        /\ \/ /\ secure_path.outcome = "returned"
              /\ IsPrefix(SessionDirOf(secure_path), secure_path.value)
              /\ \A k \in 1..Len(secure_path.value) :
                    SubSeq(secure_path.value, 1, k) \notin DOMAIN secure_path.links
              /\ \A k \in 1..Len(secure_path.value) :
                    secure_path.value[k] \notin {"", ".", ".."}
           \/ /\ secure_path.outcome = "raised"
              /\ secure_path.value = "Access denied: Path '" \o PathText(secure_path.path)
                                     \o "' is outside the session sandbox."
        /\ secure_path.path = Abs(<<"etc", "passwd">>)
           => /\ secure_path.outcome = "returned"
              /\ secure_path.value = SessionDirOf(secure_path) \o <<"etc", "passwd">>

\* link1 points to link2 and link2 to a file outside the session directory;
\* the path link1 is refused.
C24_Witness ==
    /\ HasIds(secure_path)
    /\ secure_path.path = Rel(<<"link1">>)
    /\ DOMAIN secure_path.links = {Append(TestSessionDir.parts, "link1"),
                                   Append(TestSessionDir.parts, "link2")}
    /\ secure_path.links[Append(TestSessionDir.parts, "link1")] =
          Join(TestSessionDir, Rel(<<"link2">>))
    /\ secure_path.links[Append(TestSessionDir.parts, "link2")] =
          Join(WORKSPACES_DIR, Rel(<<"outside_file.txt">>))
    /\ secure_path.outcome = "raised"

\* ---------------------------------------------------------------- C25

\* C25: get_secure_path called with an empty or None id raises the
\* 'workspace_id, agent_id, and session_id are all required' error and creates
\* no directory.
C25_MissingIdsRaiseFirst ==
    [][(/\ fs_links' = fs_links
        /\ secure_path'.outcome # "none"
        /\ ~HasIds(secure_path'))
       => /\ secure_path'.outcome = "raised"
          /\ secure_path'.value = "workspace_id, agent_id, and session_id are all required"
          /\ fs_dirs' = fs_dirs]_vars

\* A call with workspace_id None, on a file system where no directory was made.
C25_Witness ==
    /\ secure_path.outcome = "raised"
    /\ secure_path.workspace_id = NonePath
    /\ secure_path.path = Rel(<<"file.txt">>)
    /\ fs_dirs = {<<>>}

\* ---------------------------------------------------------------- C29

\* C29: a _should_break call changes nothing but the hit count of the
\* breakpoint it is about (not the step mode, the debug state or the
\* environment of the process), and what its condition evaluates to is the same
\* in every environment.
C29_EvaluationConfined ==
    [][IsShouldBreakStep =>
        /\ step_mode' = step_mode
        /\ state' = state
        /\ environ' = environ
        /\ DOMAIN breakpoints' = DOMAIN breakpoints
        /\ \A i \in DOMAIN breakpoints :
              /\ i # CalledId => breakpoints'[i] = breakpoints[i]
              /\ [breakpoints'[i] EXCEPT !.hit_count = 0] = [breakpoints[i] EXCEPT !.hit_count = 0]
        /\ (CalledId \in DOMAIN breakpoints /\ breakpoints[CalledId].enabled)
           => \A env \in {"0", "1"} :
                 EvalIn(breakpoints[CalledId].condition, last'.context, env)
                 = Eval(breakpoints[CalledId].condition, last'.context)]_vars

\* ---------------------------------------------------------------- C30

\* The values of the calls of a kind made while trace k was current, in the
\* order they were made.
RECURSIVE IssuedIn(_, _, _)
IssuedIn(log, kind, k) ==
    IF log = <<>> THEN <<>>
    ELSE (IF Head(log).kind = kind /\ Head(log).trace = k THEN <<Head(log).value>> ELSE <<>>)
         \o IssuedIn(Tail(log), kind, k)

\* C30: the node sequence, tool-call list and edge-traversal list of each trace
\* are exactly the record_node_enter, start_tool_call and record_edge_traversal
\* calls made while it was the current trace, in call order; a tool call
\* started with no current trace is in no trace, is the last active call and
\* has raised the depth by one.
C30_TraceHoldsItsOwnEvents ==
    /\ \A k \in 1..Len(traces) :
          /\ traces[k].node_sequence = IssuedIn(issued, "node", k)
          /\ traces[k].tool_calls = IssuedIn(issued, "tool", k)
          /\ [i \in 1..Len(traces[k].edge_traversals) |-> traces[k].edge_traversals[i].edge_id]
             = IssuedIn(issued, "edge", k)
    /\ (tlast.op = "start_tool_call" /\ current_trace = NoNumber)
       => /\ \A k \in 1..Len(traces) :
                \A i \in 1..Len(traces[k].tool_calls) : traces[k].tool_calls[i] # tlast.call
          /\ active_tool_calls # <<>>
          /\ active_tool_calls[Len(active_tool_calls)] = tlast.call
          /\ call_stack_depth = tlast.depth_before + 1

\* A first trace with node A, left open when a second one is started, which
\* gets node A too; and after end_trace a tool call that no trace holds.
C30_Witness ==
    /\ Len(traces) = 2
    /\ traces[1].node_sequence = <<"A">>
    /\ traces[1].end_time = NoNumber
    /\ traces[2].node_sequence = <<"A">>
    /\ traces[2].end_time # NoNumber
    /\ current_trace = NoNumber
    /\ tlast.op = "start_tool_call"
    /\ traces[2].tool_calls = <<>>
    /\ call_stack_depth = 1

\* ---------------------------------------------------------------- C31
\* The number of calls of the listed ToolCalls whose status is pending.
PendingAmong(cs, refs, names) ==
    Cardinality({i \in 1..Len(refs) : cs[refs[i]].status = "pending" /\ cs[refs[i]].tool_name \in names})

\* The sum of the counts of a by-tool breakdown.
RECURSIVE CountSum(_)
CountSum(by_tool) ==
    IF DOMAIN by_tool = {} THEN 0
    ELSE LET name == CHOOSE n \in DOMAIN by_tool : TRUE
         IN by_tool[name].count + CountSum([n \in DOMAIN by_tool \ {name} |-> by_tool[n]])

\* C31: a get_tool_call_stats call made while a trace is current changes no
\* tracer state and describes the tool calls of that trace only: total_calls is
\* their number, successful + failed + pending is total_calls, tools_used is the
\* set of their names, and by_tool has one entry per name, whose count is its
\* success + failed + pending calls, the counts adding up to total_calls.
C31_StatsOfCurrentTrace ==
    [][call_stats'.trace # NoNumber =>
        LET refs == traces[current_trace].tool_calls
            names == {calls[refs[i]].tool_name : i \in 1..Len(refs)}
            r == call_stats'.result
        IN /\ UNCHANGED tracerVars
           /\ call_stats'.trace = current_trace
           /\ r.total_calls = Len(refs)
           /\ r.successful + r.failed + PendingAmong(calls, refs, names) = r.total_calls
           /\ r.tools_used = names
           /\ DOMAIN r.by_tool = names
           /\ \A n \in names :
                 r.by_tool[n].count =
                     r.by_tool[n].success + r.by_tool[n].failed + PendingAmong(calls, refs, {n})
           /\ CountSum(r.by_tool) = r.total_calls]_vars

\* The stats of a second trace with a successful search and a pending fetch were
\* asked for, while the first trace has a tool call of its own.
C31_Witness ==
    /\ call_stats.trace = 2
    /\ current_trace = 2
    /\ Len(traces[1].tool_calls) = 1
    /\ call_stats.result.total_calls = 2
    /\ call_stats.result.successful = 1
    /\ call_stats.result.failed = 0
    /\ call_stats.result.tools_used = {"search", "fetch"}
    /\ call_stats.result.by_tool["fetch"].count = 1
    /\ call_stats.result.by_tool["fetch"].success = 0

\* ---------------------------------------------------------------- C32

\* A step in which run_with_debugging starts.
IsRunStartStep == pc = "idle" /\ pc' = "running"

\* C32: every run_with_debugging starts from a reset DebugState: step counter
\* 0, not paused, no current node or edge, no tool-call or error records, an
\* empty trace history and the input as context, however the previous run on
\* the session ended.
C32_RunStartsFromResetState ==
    [][IsRunStartStep =>
        /\ state'.step_count = 0
        /\ ~state'.paused
        /\ state'.current_node = None
        /\ state'.current_edge = None
        /\ state'.tool_calls = <<>>
        /\ state'.errors = <<>>
        /\ trace_history' = <<>>
        /\ state'.context = last'.context]_vars

\* ---------------------------------------------------------------- C36

\* A step in which _pause_at_breakpoint returns to its caller without raising.
IsPauseReturnStep ==
    /\ pc' \notin {"callback", "input"}
    /\ \/ IsPauseEntryStep
       \/ pc \in {"callback", "input"} /\ ret' # "KeyboardInterrupt"

\* C36: when _pause_at_breakpoint returns without raising the paused flag is
\* false, whatever the operator typed, and the engine never runs while the
\* session is flagged as paused.
C36_PauseReturnsUnpaused ==
    [][IsPauseReturnStep => ~state'.paused]_vars /\ [](pc = "running" => ~state.paused)

\* ---------------------------------------------------------------- C37

\* C37: during a pause the breakpoint-hit callback has been invoked exactly
\* once, with the paused flag set, however many inspect commands were given.
C37_CallbackOncePerHit ==
    /\ (on_breakpoint_hit /\ pc \in {"callback", "input"}) => cb_calls = 1
    /\ pc = "callback" => state.paused

\* ---------------------------------------------------------------- C33

\* A step in which end_tool_call ends a pending call.
IsFirstEndStep ==
    /\ tlast'.op = "end_tool_call"
    /\ tlast'.call \in DOMAIN calls
    /\ calls[tlast'.call].status = "pending"

\* C33: end_tool_call makes the call failed exactly when an error string is
\* supplied, the empty string included, recording that error and no result,
\* and makes it success exactly when no error is supplied, recording the
\* result and no error.
C33_FailedIffErrorSupplied ==
    [][IsFirstEndStep =>
        LET tc == calls'[tlast'.call]
        IN IF tlast'.error # None
           THEN tc.status = "failed" /\ tc.error = tlast'.error /\ tc.result = None
           ELSE tc.status = "success" /\ tc.result = tlast'.result /\ tc.error = None]_vars

\* ---------------------------------------------------------------- C34

\* C34: the stored snapshots only grow at the end, by take_snapshot alone; a
\* snapshot already stored keeps its key list and previews through every later
\* take_snapshot, compare_snapshots and change of the context it was taken of.
C34_SnapshotsNeverChange ==
    [][/\ Len(snapshots') \in {Len(snapshots), Len(snapshots) + 1}
       /\ \A i \in 1..Len(snapshots) : snapshots'[i] = snapshots[i]
       /\ (comparison' # comparison \/ callerVars' # callerVars) => snapshots' = snapshots
       /\ Len(snapshots') = Len(snapshots) + 1 =>
             /\ snapshots'[Len(snapshots')].context_keys = LiveKeys(caller_arguments)
             /\ \A k \in 1..Len(LiveKeys(caller_arguments)) :
                   snapshots'[Len(snapshots')].context_preview[k].key = LiveKeys(caller_arguments)[k]]_vars

\* Two snapshots of step 1 were taken of the same dict, which lost its query key
\* and had its ids list appended to after the first; the first still has both
\* keys and the old preview of ids, and the two were compared.
C34_Witness ==
    /\ Len(snapshots) = 2
    /\ snapshots[1].step = 1 /\ snapshots[2].step = 1
    /\ snapshots[1].context_keys = <<"query", "ids">>
    /\ snapshots[1].context_preview[2] = Item("ids", "['x']")
    /\ snapshots[2].context_keys = <<"ids">>
    /\ snapshots[2].context_preview[1] = Item("ids", "['x', 'b']")
    /\ "query" \notin DOMAIN caller_arguments
    /\ comparison.found

\* ---------------------------------------------------------------- C35

\* C35: visualize_routing_decision(step) never raises and leaves the history
\* alone; for a step that is not the position of a recorded decision (negative,
\* or at or past the length) it returns "Step not found in history", for a
\* decision whose edge is not in the graph "Edge not found", and otherwise it
\* renders the decision recorded at that position.
C35_RoutingDecisionOfThatStep ==
    [][routing_view' # routing_view =>
        LET v == routing_view'
            h == traversal_history
        IN /\ traversal_history' = traversal_history
           /\ v.outcome = "returned"
           /\ IF v.step < 0 \/ v.step >= Len(h)
              THEN v.text = "Step not found in history"
              ELSE IF \A i \in 1..Len(graph.edges) : graph.edges[i].id # h[v.step + 1].edge_id
              THEN v.text = "Edge not found"
              ELSE /\ v.text = "ROUTING DECISION"
                   /\ v.position = v.step + 1
                   /\ v.edge_id = h[v.step + 1].edge_id
                   /\ v.reason = h[v.step + 1].reason]_vars

\* ---------------------------------------------------------------- C38

\* The calls started on this tracer that are still pending.
PendingCalls == {r \in DOMAIN calls \ {0} : calls[r].status = "pending"}

\* C38: when every call is ended at most once, after its start, in any order,
\* call_stack_depth is the length of the active-calls list, and the active
\* calls are exactly the pending calls, each listed once.
C38_DepthEqualsActiveCalls ==
    /\ call_stack_depth = Len(active_tool_calls)
    /\ SetOf(active_tool_calls) = PendingCalls
    /\ Cardinality(PendingCalls) = Len(active_tool_calls)

\* Three calls were started; the first and then the third were ended, out of
\* nesting order, one of them with an error; the second is the only active call.
C38_Witness ==
    /\ Cardinality(DOMAIN calls) = 4
    /\ calls[1].status = "failed"
    /\ calls[3].status = "success"
    /\ calls[2].status = "pending"
    /\ tlast.op = "end_tool_call" /\ tlast.call = 3
    /\ ~well_nested
    /\ active_tool_calls = <<2>>
    /\ call_stack_depth = 1

\* ---------------------------------------------------------------- C39

\* _pause_at_breakpoint is over: the session has resumed with the paused flag
\* cleared, or the cancellation (KeyboardInterrupt) has ended the pause.
PauseOver ==
    \/ pc \in {"running", "idle"} /\ ~state.paused
    \/ pc = "idle" /\ ret = "KeyboardInterrupt" /\ command = <<"q">>

\* C39: in interactive mode a pause waiting for the operator, who gives
\* continue, single-step or quit after finitely many inspects, comes to an end:
\* the session resumes with the paused flag cleared or ends with the
\* cancellation outcome.
C39_InteractivePauseEnds == (interactive /\ pc = "input") ~> PauseOver

\* An interactive run was paused, inspected twice and then resumed by continue.
C39_Witness ==
    /\ interactive
    /\ in_run
    /\ inspects = MaxInspects
    /\ command = <<"c">>
    /\ last.op = "input"
    /\ pc = "running"
    /\ ~state.paused

\* ---------------------------------------------------------------- C40

\* C40: with three non-empty ids, whatever they hold, every path
\* get_secure_path returns, the session directory it makes, and every directory
\* it makes on the way that is not above WORKSPACES_DIR, lie beneath
\* WORKSPACES_DIR.
C40_SessionsBeneathWorkspaces ==
    HasIds(secure_path) =>
        /\ secure_path.outcome = "returned" =>
              IsPrefix(WORKSPACES_DIR.parts, secure_path.value)
        /\ IsPrefix(WORKSPACES_DIR.parts,
                    Realpath(secure_path.links,
                             SessionDir(secure_path.workspace_id, secure_path.agent_id,
                                        secure_path.session_id)))
        /\ \A dir \in fs_dirs :
              IsPrefix(WORKSPACES_DIR.parts, dir) \/ IsPrefix(dir, WORKSPACES_DIR.parts)

====
